---- MODULE Spec2Model ----
(***************************************************************************)
(* Odds ingestion pipeline, hot/archive snapshot lifecycle and the odds    *)
(* analytics entry points of Sports_degens.                                *)
(*                                                                         *)
(* Strings are sequences of one-character strings, so that slug(),         *)
(* toLowerCase(), trim() and the template-literal concatenations of        *)
(* oddsIds.ts are computed character by character.  An optional value      *)
(* (undefined / null in the source) is the empty sequence <<>>, a present  *)
(* number n is <<n>>.  Rational numbers are pairs <<numerator,             *)
(* denominator>> with a positive denominator.                              *)
(***************************************************************************)
EXTENDS Integers, Sequences, FiniteSets, TLC

\* ------------------------------------------------------------------------
\* Characters and strings
\* ------------------------------------------------------------------------

LowerSeq ==
    <<"a","b","c","d","e","f","g","h","i","j","k","l","m",
      "n","o","p","q","r","s","t","u","v","w","x","y","z">>

UpperSeq ==
    <<"A","B","C","D","E","F","G","H","I","J","K","L","M",
      "N","O","P","Q","R","S","T","U","V","W","X","Y","Z">>

DigitSeq == <<"0","1","2","3","4","5","6","7","8","9">>

Range(s) == { s[i] : i \in 1..Len(s) }

IndexIn(s, c) == CHOOSE i \in 1..Len(s) : s[i] = c

\* The characters /\s/ matches among those the feeds of this model use.
Whitespace == {" "}

\* String.prototype.toLowerCase on one character.
LowerChar(c) == IF c \in Range(UpperSeq) THEN LowerSeq[IndexIn(UpperSeq, c)] ELSE c

\* String.prototype.toUpperCase on one character.
UpperChar(c) == IF c \in Range(LowerSeq) THEN UpperSeq[IndexIn(LowerSeq, c)] ELSE c

toLowerCase(s) == [i \in 1..Len(s) |-> LowerChar(s[i])]

toUpperCase(s) == [i \in 1..Len(s) |-> UpperChar(s[i])]

\* String.prototype.charCodeAt for the characters the model uses.
charCode(c) ==
    IF c \in Range(LowerSeq) THEN 96 + IndexIn(LowerSeq, c)
    ELSE IF c \in Range(UpperSeq) THEN 64 + IndexIn(UpperSeq, c)
    ELSE IF c \in Range(DigitSeq) THEN 47 + IndexIn(DigitSeq, c)
    ELSE IF c = " " THEN 32
    ELSE IF c = "!" THEN 33
    ELSE IF c = "-" THEN 45
    ELSE IF c = "." THEN 46
    ELSE IF c = ":" THEN 58
    ELSE IF c = "_" THEN 95
    ELSE 124

RECURSIVE DropLeadingSpace(_)
DropLeadingSpace(s) ==
    IF s # <<>> /\ Head(s) \in Whitespace THEN DropLeadingSpace(Tail(s)) ELSE s

RECURSIVE DropTrailingSpace(_)
DropTrailingSpace(s) ==
    IF s # <<>> /\ s[Len(s)] \in Whitespace
    THEN DropTrailingSpace(SubSeq(s, 1, Len(s) - 1))
    ELSE s

\* String.prototype.trim
trim(s) == DropTrailingSpace(DropLeadingSpace(s))

\* s.replace(/\s+/g, "-"): every maximal run of whitespace becomes one hyphen.
RECURSIVE CollapseWhitespace(_)
CollapseWhitespace(s) ==
    IF s = <<>> THEN <<>>
    ELSE IF Head(s) \in Whitespace
         THEN <<"-">> \o CollapseWhitespace(DropLeadingSpace(s))
         ELSE <<Head(s)>> \o CollapseWhitespace(Tail(s))

\* The character class [a-z0-9\-:_] of slug().
SlugChars == Range(LowerSeq) \cup Range(DigitSeq) \cup {"-", ":", "_"}

\* s.replace(/[^a-z0-9\-:_]/g, "")
StripNonSlug(s) == SelectSeq(s, LAMBDA c : c \in SlugChars)

slug(v) == StripNonSlug(CollapseWhitespace(trim(toLowerCase(v))))

\* String.prototype.startsWith
startsWith(s, prefix) ==
    Len(s) >= Len(prefix) /\ SubSeq(s, 1, Len(prefix)) = prefix

\* String.prototype.slice(0, n)
slice0(s, n) == SubSeq(s, 1, IF Len(s) < n THEN Len(s) ELSE n)

\* Number -> string of a template literal, for integers.
RECURSIVE NatToStr(_)
NatToStr(n) ==
    IF n < 10 THEN <<DigitSeq[n + 1]>>
    ELSE NatToStr(n \div 10) \o <<DigitSeq[(n % 10) + 1]>>

NumToStr(n) == IF n < 0 THEN <<"-">> \o NatToStr(0 - n) ELSE NatToStr(n)

\* ------------------------------------------------------------------------
\* Identity deriver (oddsIds.ts)
\* ------------------------------------------------------------------------

\* One round of h = (h * 31 + charCode) | 0 on a 32-bit accumulator kept as
\* two 16-bit limbs <<high, low>> (the product does not fit a 32-bit integer).
HashStep(h, c) ==
    LET lo == h[2] * 31 + c
        hi == h[1] * 31 + (lo \div 65536)
    IN  <<hi % 65536, lo % 65536>>

RECURSIVE HashLimbs(_, _)
HashLimbs(h, s) ==
    IF s = <<>> THEN h ELSE HashLimbs(HashStep(h, charCode(Head(s))), Tail(s))

\* The limbs read as a signed 32-bit integer (what "| 0" yields).
ToInt32(h) == IF h[1] >= 32768 THEN (h[1] - 65536) * 65536 + h[2] ELSE h[1] * 65536 + h[2]

Abs(x) == IF x < 0 THEN 0 - x ELSE x

makeSportIdFromKey(sportKey) == Abs(ToInt32(HashLimbs(<<0, 0>>, sportKey)))

Str_team == <<"t","e","a","m",":">>
Str_book == <<"b","o","o","k",":">>
Str_evt == <<"e","v","t",":">>
Str_mkt == <<"m","k","t",":">>
Str_sel == <<"s","e","l",":">>
Colon == <<":">>

makeTeamId(sportId, teamName) == Str_team \o NumToStr(sportId) \o Colon \o slug(teamName)

makeSportsbookId(bookKey) == Str_book \o slug(bookKey)

makeEventId(externalEventId) == Str_evt \o slug(externalEventId)

makeMarketId(eventId, bookId, marketKey) ==
    Str_mkt \o eventId \o Colon \o bookId \o Colon \o slug(marketKey)

\* point is <<>> (undefined / null) or <<n>>.
makeSelectionId(marketId, outcomeName, point) ==
    LET pt == IF point # <<>> THEN Colon \o NumToStr(point[1]) ELSE <<>>
    IN  Str_sel \o marketId \o Colon \o slug(outcomeName) \o pt

\* The multiplier of makeOddsSnapshotId.
SnapshotIdScale == 1000

\* batchEpochMs * 1000 + index.  The number exceeds 32 bits, so it is kept
\* as its two base-1000 digits <<id \div 1000, id % 1000>>; two ids are the
\* same number exactly when the pairs are equal.
makeOddsSnapshotId(batchEpochMs, index) ==
    <<batchEpochMs + (index \div SnapshotIdScale), index % SnapshotIdScale>>

\* ------------------------------------------------------------------------
\* Odds math (odds.ts), on exact rationals
\* ------------------------------------------------------------------------

RECURSIVE Gcd(_, _)
Gcd(a, b) == IF b = 0 THEN a ELSE Gcd(b, a % b)

\* A rational in lowest terms.
Rat(n, d) == LET g == Gcd(Abs(n), d) IN <<n \div g, d \div g>>

RZero == <<0, 1>>
ROne == <<1, 1>>

RAdd(a, b) == Rat(a[1] * b[2] + b[1] * a[2], a[2] * b[2])
RSub(a, b) == Rat(a[1] * b[2] - b[1] * a[2], a[2] * b[2])
RMul(a, b) == Rat(a[1] * b[1], a[2] * b[2])
RLess(a, b) == a[1] * b[2] < b[1] * a[2]
RLeq(a, b) == a[1] * b[2] <= b[1] * a[2]
\* 1 / a, for a > 0
RInv(a) == Rat(a[2], a[1])
RInt(n) == <<n, 1>>

americanToImpliedProb(american) ==
    IF american = 0 THEN RZero
    ELSE IF american > 0 THEN Rat(100, american + 100)
    ELSE Rat(Abs(american), Abs(american) + 100)

americanToDecimal_negativeAsPositive(american) ==
    IF american = 0 THEN RZero ELSE RAdd(ROne, Rat(Abs(american), 100))

americanToDecimal(american) ==
    IF american = 0 THEN RZero
    ELSE IF american > 0 THEN RAdd(ROne, Rat(american, 100))
    ELSE RAdd(ROne, Rat(100, Abs(american)))

decimalToImpliedProb(decimal) ==
    IF decimal = RZero \/ RLeq(decimal, RZero) THEN RZero ELSE RInv(decimal)

\* ------------------------------------------------------------------------
\* Feed payloads (the shape OddsApiService.getOdds returns in data)
\* ------------------------------------------------------------------------

H2H == <<"h","2","h">>
Totals == <<"t","o","t","a","l","s">>
Spreads == <<"s","p","r","e","a","d","s">>
PlayerPoints == <<"p","l","a","y","e","r","_","p","t","s">>
PlayerPrefix == <<"p","l","a","y","e","r","_">>
Str_unknown == <<"u","n","k","n","o","w","n">>
Str_outcome == <<"o","u","t","c","o","m","e">>
Str_UNK == <<"U","N","K">>
Str_nba == <<"n","b","a">>
Str_nfl == <<"n","f","l">>

\* The markets getOdds asks for when none are given, and ODDS_DEFAULT_MARKETS.
DefaultMarkets == <<H2H, Spreads, Totals>>

Outcome(name, description, point, price) ==
    [name |-> name, description |-> description, point |-> point,
     price |-> price, odds |-> <<>>]

MarketOf(key, outcomes) == [key |-> key, outcomes |-> outcomes]

Bookmaker(key, title, lastUpdate, markets) ==
    [key |-> key, title |-> title, last_update |-> lastUpdate, markets |-> markets]

Event(id, home, away, commence, bookmakers) ==
    [id |-> id, home_team |-> home, away_team |-> away,
     commence_time |-> commence, bookmakers |-> bookmakers]

\* One event, one bookmaker, one h2h market with two priced outcomes.
FeedOne ==
    << Event(<<"e","1">>, <<"L","A">>, <<"N","Y">>, <<50>>,
         << Bookmaker(<<"d","k">>, <<"D","K">>, <<7>>,
              << MarketOf(H2H, << Outcome(<<"L","A">>, <<>>, <<>>, <<150>>),
                                  Outcome(<<"N","Y">>, <<>>, <<>>, <<-120>>) >>) >>) >>) >>

\* The same event under an id and team names that slug to the same keys, no
\* commence time, and one totals outcome with a line and no price.
FeedTwo ==
    << Event(<<"E","1"," ">>, <<"l","a">>, <<"N"," ","Y">>, <<>>,
         << Bookmaker(<<>>, <<"D","k">>, <<>>,
              << MarketOf(Totals, << Outcome(<<>>, <<"O","v">>, <<3>>, <<>>) >>) >>) >>) >>

\* One event quoted in decimal odds.
FeedDecimal ==
    << Event(<<"e","2">>, <<"L","A">>, <<>>, <<50>>,
         << Bookmaker(<<"f","d">>, <<>>, <<>>,
              << MarketOf(H2H, << Outcome(<<"L","A">>, <<>>, <<>>, <<2>>) >>) >>) >>) >>

FeedEmpty == <<>>

\* The one football event on offer, with both sides of the spread quoted.
FeedNfl ==
    << Event(<<"g","1">>, <<"K","C">>, <<"S","F">>, <<60>>,
         << Bookmaker(<<"d","k">>, <<"D","K">>, <<8>>,
              << MarketOf(Spreads, << Outcome(<<"K","C">>, <<>>, <<-3>>, <<-110>>),
                                      Outcome(<<"S","F">>, <<>>, <<3>>, <<-105>>) >>) >>) >>) >>

\* What the provider may answer to the single-sport odds request of an
\* ingestion run: the events of the sport asked for, priced in the odds
\* format asked for.
IngestFeeds(sportKey, oddsFormat) ==
    IF sportKey = Str_nfl THEN {FeedNfl}
    ELSE IF oddsFormat = "decimal" THEN {FeedDecimal}
    ELSE {FeedEmpty, FeedOne, FeedTwo}

\* ------------------------------------------------------------------------
\* Store: every table is a set of rows, one row per id
\* ------------------------------------------------------------------------

Tables ==
    {"Sport", "Team", "SportEvent", "Sportsbook", "Market", "MarketSelection",
     "OddsSnapshot", "OddsSnapshotArchive"}

EmptyDb == [t \in Tables |-> {}]

Ids(rows) == { r.id : r \in rows }

\* Model.updateOne({id}, {$set: row}, {upsert: true}) with every field of the
\* row listed: the row under that id is replaced, or inserted when absent.
UpsertSet(rows, row) == { r \in rows : r.id # row.id } \cup {row}

\* An upsert that overwrites the row it finds.
UpsertSetOnInsert_overwrite(rows, row) == UpsertSet(rows, row)

\* Model.updateOne({id}, {$setOnInsert: row}, {upsert: true}): inserted when
\* absent, an existing row is left as it is.
UpsertSetOnInsert(rows, row) == IF row.id \in Ids(rows) THEN rows ELSE rows \cup {row}

ApplyWrite(d, w) ==
    [d EXCEPT ![w.table] =
        IF w.mode = "setOnInsert" THEN UpsertSetOnInsert(@, w.row) ELSE UpsertSet(@, w.row)]

\* ------------------------------------------------------------------------
\* refreshOdds: the writes of one batch, in the order of the awaits
\* ------------------------------------------------------------------------

RECURSIVE FlatMap(_, _)
FlatMap(F(_), s) == IF s = <<>> THEN <<>> ELSE F(Head(s)) \o FlatMap(F, Tail(s))

NoItem == [key |-> <<>>]

Item(kind, evt, bm, mk, out) == [kind |-> kind, evt |-> evt, bm |-> bm, mk |-> mk, out |-> out]

\* The nested loops over events, bookmakers, markets and outcomes, flattened:
\* one item per awaited store write.
OutcomeItems(evt, bm, mk, out) ==
    << Item("selection", evt, bm, mk, out), Item("snapshot", evt, bm, mk, out) >>

MarketItems(evt, bm, mk) ==
    << Item("market", evt, bm, mk, NoItem) >>
    \o FlatMap(LAMBDA out : OutcomeItems(evt, bm, mk, out), mk.outcomes)

BookmakerItems(evt, bm) ==
    << Item("book", evt, bm, NoItem, NoItem) >>
    \o FlatMap(LAMBDA mk : MarketItems(evt, bm, mk), bm.markets)

\* The event row written ahead of its two team rows.
EventItems_eventFirst(evt) ==
    << Item("event", evt, NoItem, NoItem, NoItem),
       Item("home", evt, NoItem, NoItem, NoItem),
       Item("away", evt, NoItem, NoItem, NoItem) >>
    \o FlatMap(LAMBDA bm : BookmakerItems(evt, bm), evt.bookmakers)

EventItems(evt) ==
    << Item("home", evt, NoItem, NoItem, NoItem),
       Item("away", evt, NoItem, NoItem, NoItem),
       Item("event", evt, NoItem, NoItem, NoItem) >>
    \o FlatMap(LAMBDA bm : BookmakerItems(evt, bm), evt.bookmakers)

RefreshItems(events) == FlatMap(EventItems, events)

\* a || b on strings
OrElse(a, b) == IF a # <<>> THEN a ELSE b

bookKeyOf(bm) == OrElse(bm.key, OrElse(bm.title, Str_unknown))

outcomeNameOf(out) == OrElse(out.name, OrElse(out.description, Str_outcome))

\* Number(out.price ?? out.odds ?? 0)
priceOf(out) ==
    IF out.price # <<>> THEN out.price[1]
    ELSE IF out.odds # <<>> THEN out.odds[1]
    ELSE 0

eventIdOf(evt) == makeEventId(evt.id)

marketIdOf(evt, bm, mk) ==
    makeMarketId(eventIdOf(evt), makeSportsbookId(bookKeyOf(bm)), mk.key)

selectionIdOf(evt, bm, mk, out) ==
    makeSelectionId(marketIdOf(evt, bm, mk), outcomeNameOf(out), out.point)

SportRow(sportKey) ==
    [id |-> makeSportIdFromKey(sportKey), name |-> sportKey, key |-> sportKey]

TeamRow(sportId, teamName) ==
    [id |-> makeTeamId(sportId, teamName),
     sport_id |-> sportId,
     name |-> teamName,
     abbreviation |-> OrElse(toUpperCase(slice0(teamName, 3)), Str_UNK),
     external_ref |-> teamName]

\* A SportEvent row whose status follows the clock of the run that wrote it.
SportEventRow_clockStatus(sportKey, evt, nowMs) ==
    LET sportId == makeSportIdFromKey(sportKey)
        startsAt == IF evt.commence_time # <<>> /\ evt.commence_time[1] # 0
                    THEN evt.commence_time[1] ELSE nowMs IN
    [id |-> eventIdOf(evt),
     sport_id |-> sportId,
     league_code |-> sportKey,
     home_team_id |-> makeTeamId(sportId, evt.home_team),
     away_team_id |-> makeTeamId(sportId, evt.away_team),
     starts_at |-> startsAt,
     status |-> IF startsAt < nowMs THEN "live" ELSE "scheduled",
     external_ref |-> evt.id]

\* starts_at: new Date(evt.commence_time || Date.now())
SportEventRow(sportKey, evt, nowMs) ==
    LET sportId == makeSportIdFromKey(sportKey) IN
    [id |-> eventIdOf(evt),
     sport_id |-> sportId,
     league_code |-> sportKey,
     home_team_id |-> makeTeamId(sportId, evt.home_team),
     away_team_id |-> makeTeamId(sportId, evt.away_team),
     starts_at |-> IF evt.commence_time # <<>> /\ evt.commence_time[1] # 0
                   THEN evt.commence_time[1] ELSE nowMs,
     status |-> "scheduled",
     external_ref |-> evt.id]

SportsbookRow(bm) ==
    [id |-> makeSportsbookId(bookKeyOf(bm)),
     name |-> OrElse(bm.title, bookKeyOf(bm)),
     code |-> bookKeyOf(bm),
     base_url |-> <<>>]

MarketRow(evt, bm, mk) ==
    [id |-> marketIdOf(evt, bm, mk),
     sport_event_id |-> eventIdOf(evt),
     key |-> mk.key,
     label |-> mk.key,
     metadata |-> [bookmaker_key |-> bookKeyOf(bm), last_update |-> bm.last_update]]

MarketSelectionRow(evt, bm, mk, out) ==
    [id |-> selectionIdOf(evt, bm, mk, out),
     market_id |-> marketIdOf(evt, bm, mk),
     label |-> outcomeNameOf(out),
     player_id |-> <<>>,
     line_value |-> IF out.point # <<>> THEN out.point[1] ELSE 0,
     side |-> outcomeNameOf(out)]

\* oddsFormat is "" when the caller leaves it out: (oddsFormat || "american").
OddsSnapshotRow(evt, bm, mk, out, oddsFormat, batchEpochMs, index) ==
    LET price == priceOf(out)
        decimal == (IF oddsFormat = "" THEN "american" ELSE oddsFormat) = "decimal"
    IN
    [id |-> makeOddsSnapshotId(batchEpochMs, index),
     sportsbook_id |-> makeSportsbookId(bookKeyOf(bm)),
     selection_id |-> selectionIdOf(evt, bm, mk, out),
     odds_format |-> IF decimal THEN "decimal" ELSE "american",
     odds_value |-> price,
     implied_prob |-> IF decimal THEN decimalToImpliedProb(RInt(price))
                      ELSE americanToImpliedProb(price),
     fetched_at |-> batchEpochMs]

\* The store write an item stands for.
WriteOf(item, sportKey, oddsFormat, batchEpochMs, index, nowMs) ==
    LET sportId == makeSportIdFromKey(sportKey) IN
    CASE item.kind = "home" ->
           [table |-> "Team", mode |-> "setOnInsert",
            row |-> TeamRow(sportId, item.evt.home_team)]
      [] item.kind = "away" ->
           [table |-> "Team", mode |-> "setOnInsert",
            row |-> TeamRow(sportId, item.evt.away_team)]
      [] item.kind = "event" ->
           [table |-> "SportEvent", mode |-> "set",
            row |-> SportEventRow(sportKey, item.evt, nowMs)]
      [] item.kind = "book" ->
           [table |-> "Sportsbook", mode |-> "set", row |-> SportsbookRow(item.bm)]
      [] item.kind = "market" ->
           [table |-> "Market", mode |-> "set",
            row |-> MarketRow(item.evt, item.bm, item.mk)]
      [] item.kind = "selection" ->
           [table |-> "MarketSelection", mode |-> "set",
            row |-> MarketSelectionRow(item.evt, item.bm, item.mk, item.out)]
      [] item.kind = "snapshot" ->
           [table |-> "OddsSnapshot", mode |-> "set",
            row |-> OddsSnapshotRow(item.evt, item.bm, item.mk, item.out,
                                    oddsFormat, batchEpochMs, index)]

\* ------------------------------------------------------------------------
\* State
\* ------------------------------------------------------------------------

VARIABLES
    now,        \* Date.now(), in milliseconds
    ticks,      \* how often the clock has advanced
    apiKey,     \* whether ODDS_API_KEY is configured
    db,         \* the store: table name -> set of rows
    rpc,        \* refreshOdds invocation -> "idle", "sport", "fetch", "write", "done", "failed"
    rreq,       \* its params
    rbatch,     \* its batchEpochMs
    rdata,      \* the events getOdds returned to it
    rpos,       \* how many of its event writes have completed
    rindex,     \* its snapshotIndex
    rresult,    \* what it returned or threw
    rlog,       \* logger.warn lines
    rhist,      \* per invocation: tables written, whether getOdds returned data,
                \* and the invocations that had ended when it began
    rruns,      \* refreshOdds invocations begun
    snapLog,    \* every OddsSnapshot write made so far
    apc,        \* archiveOldSnapshots: "idle", "find", "insert", "delete", "done", "aborted"
    acall,      \* the running (or last) sweep: daysOld, cutoff, selected rows, docs
    aresult,    \* what the last sweep returned
    aruns,      \* sweeps started
    ahist,      \* the snapshot tables when the sweep was called and when it returned,
                \* and whether a refresh wrote a snapshot during it or since its call
    aprev,      \* the sweep before this one
    qcall,      \* the last analytics call: entry point and params
    qdata,      \* the events the Feed Client handed to it
    qfeed,      \* the Feed Client methods it called, in order
    qresult,    \* what it returned, threw or responded
    qresponse,  \* the HTTP response of its handler, if it has one
    qruns,      \* analytics calls made
    idTable,    \* the ids derived so far, each with the natural key it came from
    conv,       \* the last odds conversion: the price and what each function gave
    batch,      \* one refreshOdds batch seen through its snapshot counter
    perm        \* one feed payload ingested as listed and with its events reordered

ingestVars == <<rpc, rreq, rbatch, rdata, rpos, rindex, rresult, rlog, rhist, rruns, snapLog>>
archiveVars == <<apc, acall, aresult, aruns, ahist, aprev>>
analyticsVars == <<qcall, qdata, qfeed, qresult, qresponse, qruns>>
calcVars == <<idTable, conv, batch, perm>>
vars == <<now, ticks, apiKey, db, ingestVars, archiveVars, analyticsVars, calcVars>>

\* Concurrent refreshOdds invocations (HTTP refreshOddsNow and the cron job).
Refreshers == {"r1", "r2"}

\* refreshOdds is begun at most this often.
MaxRefreshRuns == 2

\* The clock advances at most this often.
MaxTicks == 3

\* 24 * 60 * 60 * 1000
MsPerDay == 24 * 60 * 60 * 1000

\* archiveOldSnapshots is called at most this often.
MaxArchiveRuns == 2

\* The daysOld values callers pass.
DaysOldValues == {1}

\* The params refreshOdds is called with: markets is <<>> and oddsFormat is ""
\* when left out.
RefreshRequests ==
    { [sportKey |-> Str_nba, markets |-> <<>>, oddsFormat |-> ""],
      [sportKey |-> Str_nba, markets |-> <<H2H>>, oddsFormat |-> "decimal"],
      [sportKey |-> Str_nba, markets |-> <<PlayerPoints>>, oddsFormat |-> "american"] }

\* The params the refresh job passes (ODDS_DEFAULT_SPORT_KEY, ODDS_DEFAULT_MARKETS,
\* oddsFormat "american").
CronRequest == [sportKey |-> Str_nfl, markets |-> DefaultMarkets, oddsFormat |-> "american"]

\* x-requests-remaining values the provider reports.
RemainingValues == {5}

NoRequest == [sportKey |-> <<>>, markets |-> <<>>, oddsFormat |-> ""]
NoResult == [kind |-> "none"]
NoRefreshHist == [written |-> {}, fetched |-> FALSE, after |-> {}]
NoCall == [daysOld |-> 0, cutoff |-> 0, old |-> {}, docs |-> {}, inserted |-> {},
           insertFailed |-> FALSE, abortedAt |-> "none"]
NoHist == [hot |-> {}, archive |-> {}, during |-> FALSE, since |-> FALSE,
           hotAfter |-> {}, archiveAfter |-> {}]
NoQuery == [op |-> "none"]

NoConversion == [kind |-> "none"]

NoOrder == [kind |-> "none"]

NoBatch == [pc |-> "idle", events |-> 0, bookmakers |-> 0, markets |-> 0, outcomes |-> 0,
            batchEpochMs |-> 0, snapshotIndex |-> 0, written |-> <<>>, ingestedSnapshots |-> <<>>]

NoPrev == [phase |-> "none", cutoff |-> 0, old |-> {}, dirty |-> FALSE]

Init ==
    /\ now = 0
    /\ ticks = 0
    /\ apiKey \in BOOLEAN
    /\ db = EmptyDb
    /\ rpc = [p \in Refreshers |-> "idle"]
    /\ rreq = [p \in Refreshers |-> NoRequest]
    /\ rbatch = [p \in Refreshers |-> 0]
    /\ rdata = [p \in Refreshers |-> <<>>]
    /\ rpos = [p \in Refreshers |-> 0]
    /\ rindex = [p \in Refreshers |-> 0]
    /\ rresult = [p \in Refreshers |-> NoResult]
    /\ rlog = {}
    /\ rhist = [p \in Refreshers |-> NoRefreshHist]
    /\ rruns = 0
    /\ snapLog = {}
    /\ apc = "idle"
    /\ acall = NoCall
    /\ aresult = NoResult
    /\ aruns = 0
    /\ ahist = NoHist
    /\ aprev = NoPrev
    /\ qcall = NoQuery
    /\ qdata = <<>>
    /\ qfeed = <<>>
    /\ qresult = NoResult
    /\ qresponse = NoResult
    /\ qruns = 0
    /\ idTable = {}
    /\ conv = NoConversion
    /\ batch = NoBatch
    /\ perm = NoOrder

\* ------------------------------------------------------------------------
\* Clock
\* ------------------------------------------------------------------------

\* Time passes; the clock is observed a day at a time.
Tick ==
    /\ ticks < MaxTicks
    /\ now' = now + MsPerDay
    /\ ticks' = ticks + 1
    /\ UNCHANGED <<apiKey, db, ingestVars, archiveVars>>
    /\ UNCHANGED <<analyticsVars, calcVars>>

\* ------------------------------------------------------------------------
\* Feed client: OddsApiService.getOdds
\* ------------------------------------------------------------------------

isPlayerPropMarket(market) == startsWith(toLowerCase(market), PlayerPrefix)

WarningNotConfigured == "ODDS_API_KEY not configured"

\* What getOdds does before it reaches the network: "warning" (no key),
\* "invalid" (a player prop market: INVALID_MARKET, status 422), or "call".
getOddsGate(key, markets) ==
    LET asked == IF markets = <<>> THEN DefaultMarkets ELSE markets IN
    IF ~key THEN "warning"
    ELSE IF \E i \in 1..Len(asked) : isPlayerPropMarket(asked[i]) THEN "invalid"
    ELSE "call"

ErrInvalidMarket == [kind |-> "error", code |-> "INVALID_MARKET", status |-> 422]
ErrUpstream == [kind |-> "error", code |-> "UPSTREAM", status |-> 0]
ErrStore == [kind |-> "error", code |-> "STORE", status |-> 0]

\* ------------------------------------------------------------------------
\* OddsIngestionService.refreshOdds
\* ------------------------------------------------------------------------

Ended(p) == rpc[p] \in {"done", "failed"}

\* The value refreshOdds resolves with.
RefreshReturn(ingested, remaining) ==
    [kind |-> "ok", value |-> [ingestedSnapshots |-> ingested, remaining |-> remaining]]

\* Lines 35-38: read the clock, derive the sport id, issue the Sport upsert.
Begin(p, req) ==
    /\ rruns < MaxRefreshRuns
    /\ rreq' = [rreq EXCEPT ![p] = req]
    /\ rbatch' = [rbatch EXCEPT ![p] = now]
    /\ rpc' = [rpc EXCEPT ![p] = "sport"]
    /\ rdata' = [rdata EXCEPT ![p] = <<>>]
    /\ rresult' = [rresult EXCEPT ![p] = NoResult]
    /\ rhist' = [rhist EXCEPT ![p] =
                   [NoRefreshHist EXCEPT !.after = { q \in Refreshers : Ended(q) }]]
    /\ rruns' = rruns + 1
    /\ UNCHANGED <<now, ticks, apiKey, db, rpos, rindex, rlog, snapLog, archiveVars>>
    /\ UNCHANGED <<analyticsVars, calcVars>>

\* refreshOddsNow: refreshOdds is called with the params of the request body.
RefreshBegin(p) == rpc[p] = "idle" /\ \E req \in RefreshRequests : Begin(p, req)

\* Lines 41-51: Sport.updateOne with $setOnInsert.
SportWrite(sportKey) == [table |-> "Sport", mode |-> "setOnInsert", row |-> SportRow(sportKey)]

RefreshSport(p) ==
    /\ rpc[p] = "sport"
    /\ db' = ApplyWrite(db, SportWrite(rreq[p].sportKey))
    /\ rhist' = [rhist EXCEPT ![p].written = @ \cup {"Sport"}]
    /\ rpc' = [rpc EXCEPT ![p] = "fetch"]
    /\ UNCHANGED <<now, ticks, apiKey, rreq, rbatch, rdata, rpos, rindex, rresult, rlog,
                   rruns, snapLog, archiveVars>>
    /\ UNCHANGED <<analyticsVars, calcVars>>

\* The invocation ends: its locals are gone.
EndLocals(p) ==
    /\ rbatch' = [rbatch EXCEPT ![p] = 0]
    /\ rpos' = [rpos EXCEPT ![p] = 0]
    /\ rindex' = [rindex EXCEPT ![p] = 0]

\* Lines 53-63: getOdds reports the warning: it is logged and the invocation
\* returns.
RefreshWarned(p) ==
    /\ rpc[p] = "fetch"
    /\ getOddsGate(apiKey, rreq[p].markets) = "warning"
    /\ rlog' = rlog \cup {[proc |-> p, text |-> WarningNotConfigured]}
    /\ rresult' = [rresult EXCEPT ![p] = RefreshReturn(0, 0)]
    /\ rpc' = [rpc EXCEPT ![p] = "done"]
    /\ EndLocals(p)
    /\ UNCHANGED <<now, ticks, apiKey, db, rreq, rdata, rhist, rruns, snapLog, archiveVars>>
    /\ UNCHANGED <<analyticsVars, calcVars>>

\* Line 53: getOdds throws, INVALID_MARKET before the network or the upstream
\* failure after it; refreshOdds does not catch it.
RefreshFetchError(p) ==
    /\ rpc[p] = "fetch"
    /\ LET gate == getOddsGate(apiKey, rreq[p].markets) IN
       /\ gate \in {"invalid", "call"}
       /\ rresult' = [rresult EXCEPT ![p] =
                        IF gate = "invalid" THEN ErrInvalidMarket ELSE ErrUpstream]
    /\ rpc' = [rpc EXCEPT ![p] = "failed"]
    /\ EndLocals(p)
    /\ UNCHANGED <<now, ticks, apiKey, db, rreq, rdata, rlog, rhist, rruns, snapLog, archiveVars>>
    /\ UNCHANGED <<analyticsVars, calcVars>>

\* Lines 53-67: getOdds returns data; an empty event list returns after the
\* (empty) loop.
RefreshFetch(p) ==
    /\ rpc[p] = "fetch"
    /\ getOddsGate(apiKey, rreq[p].markets) = "call"
    /\ \E data \in IngestFeeds(rreq[p].sportKey, rreq[p].oddsFormat), remaining \in RemainingValues :
         /\ rdata' = [rdata EXCEPT ![p] = data]
         /\ IF RefreshItems(data) = <<>>
            THEN /\ rresult' = [rresult EXCEPT ![p] = RefreshReturn(0, remaining)]
                 /\ rpc' = [rpc EXCEPT ![p] = "done"]
                 /\ EndLocals(p)
            ELSE /\ rresult' = [rresult EXCEPT ![p] =
                                  [kind |-> "pending", remaining |-> remaining]]
                 /\ rpc' = [rpc EXCEPT ![p] = "write"]
                 /\ UNCHANGED <<rbatch, rpos, rindex>>
    /\ rhist' = [rhist EXCEPT ![p].fetched = TRUE]
    /\ UNCHANGED <<now, ticks, apiKey, db, rreq, rlog, rruns, snapLog, archiveVars>>
    /\ UNCHANGED <<analyticsVars, calcVars>>

\* The write the invocation is waiting on.
CurrentWrite(p) ==
    WriteOf(RefreshItems(rdata[p])[rpos[p] + 1], rreq[p].sportKey, rreq[p].oddsFormat,
            rbatch[p], rindex[p], now)

\* Lines 69-227: the next awaited updateOne of the loops completes; after the
\* last one the invocation returns the number of snapshots.
RefreshWrite(p) ==
    /\ rpc[p] = "write"
    /\ LET w == CurrentWrite(p)
           snap == w.table = "OddsSnapshot"
           index == IF snap THEN rindex[p] + 1 ELSE rindex[p]
           last == rpos[p] + 1 = Len(RefreshItems(rdata[p]))
       IN
       /\ db' = ApplyWrite(db, w)
       /\ rhist' = [rhist EXCEPT ![p].written = @ \cup {w.table}]
       /\ snapLog' = IF snap
                     THEN snapLog \cup {[run |-> rruns, proc |-> p, index |-> rindex[p],
                                          id |-> w.row.id,
                                          fresh |-> w.row.id \notin Ids(db.OddsSnapshot)]}
                     ELSE snapLog
       /\ ahist' = IF snap
                   THEN [ahist EXCEPT !.since = TRUE,
                                      !.during = @ \/ apc \in {"find", "insert", "delete"}]
                   ELSE ahist
       /\ IF last
          THEN /\ rresult' = [rresult EXCEPT ![p] = RefreshReturn(index, rresult[p].remaining)]
               /\ rpc' = [rpc EXCEPT ![p] = "done"]
               /\ EndLocals(p)
          ELSE /\ rindex' = [rindex EXCEPT ![p] = index]
               /\ rpos' = [rpos EXCEPT ![p] = @ + 1]
               /\ UNCHANGED <<rresult, rpc, rbatch>>
    /\ UNCHANGED <<now, ticks, apiKey, rreq, rdata, rlog, rruns, apc, acall, aresult, aruns, aprev>>
    /\ UNCHANGED <<analyticsVars, calcVars>>

\* An awaited store write rejects: the exception propagates, nothing is
\* rolled back.
RefreshStoreError(p) ==
    /\ rpc[p] \in {"sport", "write"}
    /\ rresult' = [rresult EXCEPT ![p] = ErrStore]
    /\ rpc' = [rpc EXCEPT ![p] = "failed"]
    /\ EndLocals(p)
    /\ UNCHANGED <<now, ticks, apiKey, db, rreq, rdata, rlog, rhist, rruns, snapLog, archiveVars>>
    /\ UNCHANGED <<analyticsVars, calcVars>>

\* ------------------------------------------------------------------------
\* OddsIngestionService.archiveOldSnapshots
\* ------------------------------------------------------------------------

\* new Date(Date.now() - daysOld * 24 * 60 * 60 * 1000)
Cutoff(nowMs, daysOld) == nowMs - daysOld * MsPerDay

\* A find that also selects the rows fetched exactly at the cutoff ($lte).
FindOld_lte(hot, cutoff) == { r \in hot : r.fetched_at <= cutoff }

\* OddsSnapshot.find({ fetched_at: { $lt: cutoff } })
FindOld(hot, cutoff) == { r \in hot : r.fetched_at < cutoff }

\* An archive doc that restamps the fetch time as well.
ArchiveDoc_restamped(o, nowMs) ==
    [f \in DOMAIN o \cup {"archived_at"} |->
        IF f \in {"archived_at", "fetched_at"} THEN nowMs ELSE o[f]]

\* { ...o, archived_at: new Date() }
ArchiveDoc(o, nowMs) ==
    [f \in DOMAIN o \cup {"archived_at"} |-> IF f = "archived_at" THEN nowMs ELSE o[f]]

\* An archive table without the unique index: every doc is let in.
Insertable_noIndex(archive, docs) == docs

\* The docs the unique index on OddsSnapshotArchive.id lets in; the others are
\* rejected with a duplicate key error.
Insertable(archive, docs) == { d \in docs : d.id \notin Ids(archive) }

\* A sweep that lets the rejection of insertMany escape.
AfterInsert_rethrow(failed) == IF failed THEN "aborted" ELSE "delete"

\* Where archiveOldSnapshots goes after insertMany settles: the rejection is
\* caught and dropped.
AfterInsert(failed) == "delete"

\* OddsSnapshot.deleteMany({ id: { $in: ids } })
DeleteMany(hot, ids) == { r \in hot : r.id \notin ids }

\* Line 234: the cutoff is computed and the find is issued.
ArchiveBegin ==
    /\ apc \in {"idle", "done", "aborted"}
    /\ aruns < MaxArchiveRuns
    /\ \E d \in DaysOldValues :
         acall' = [NoCall EXCEPT !.daysOld = d, !.cutoff = Cutoff(now, d)]
    /\ aprev' = [phase |-> IF apc = "aborted" THEN acall.abortedAt ELSE apc,
                 cutoff |-> acall.cutoff, old |-> acall.old, dirty |-> ahist.since]
    /\ ahist' = [NoHist EXCEPT !.hot = db.OddsSnapshot, !.archive = db.OddsSnapshotArchive]
    /\ aruns' = aruns + 1
    /\ apc' = "find"
    /\ aresult' = NoResult
    /\ UNCHANGED <<now, ticks, apiKey, db, ingestVars>>
    /\ UNCHANGED <<analyticsVars, calcVars>>

\* Lines 235-238: the find resolves; nothing old returns { archived: 0 },
\* otherwise the archive docs are built and insertMany is issued.
ArchiveFind ==
    /\ apc = "find"
    /\ LET old == FindOld(db.OddsSnapshot, acall.cutoff) IN
       IF old = {}
       THEN /\ aresult' = [kind |-> "ok", value |-> [archived |-> 0]]
            /\ apc' = "done"
            /\ ahist' = [ahist EXCEPT !.hotAfter = db.OddsSnapshot,
                                      !.archiveAfter = db.OddsSnapshotArchive]
            /\ UNCHANGED acall
       ELSE /\ acall' = [acall EXCEPT !.old = old,
                                      !.docs = { ArchiveDoc(o, now) : o \in old }]
            /\ apc' = "insert"
            /\ UNCHANGED <<aresult, ahist>>
    /\ UNCHANGED <<now, ticks, apiKey, db, ingestVars, aruns, aprev>>
    /\ UNCHANGED <<analyticsVars, calcVars>>

\* Lines 240-242: insertMany(docs, { ordered: false }) settles.  Any subset of
\* the docs the unique index lets in is stored; if some doc was not stored
\* the promise rejects and the rejection is swallowed.
ArchiveInsert ==
    /\ apc = "insert"
    /\ \E ok \in SUBSET Insertable(db.OddsSnapshotArchive, acall.docs) :
         /\ db' = [db EXCEPT !.OddsSnapshotArchive = @ \cup ok]
         /\ acall' = [acall EXCEPT !.inserted = ok, !.insertFailed = (ok # acall.docs)]
         /\ apc' = AfterInsert(ok # acall.docs)
    /\ UNCHANGED <<now, ticks, apiKey, ingestVars, aresult, aruns, ahist, aprev>>
    /\ UNCHANGED <<analyticsVars, calcVars>>

\* Lines 243-245: deleteMany by the selected ids resolves, and the sweep
\* returns the number of rows it selected.
ArchiveDelete ==
    /\ apc = "delete"
    /\ db' = [db EXCEPT !.OddsSnapshot = DeleteMany(@, Ids(acall.old))]
    /\ aresult' = [kind |-> "ok", value |-> [archived |-> Cardinality(acall.old)]]
    /\ apc' = "done"
    /\ ahist' = [ahist EXCEPT !.hotAfter = db'.OddsSnapshot,
                              !.archiveAfter = db'.OddsSnapshotArchive]
    /\ UNCHANGED <<now, ticks, apiKey, ingestVars, acall, aruns, aprev>>
    /\ UNCHANGED <<analyticsVars, calcVars>>

\* The find or the deleteMany rejects (uncaught), or the process stops while
\* the sweep is waiting for one of them: the sweep ends where it is.
ArchiveAbort ==
    /\ apc \in {"find", "delete"}
    /\ acall' = [acall EXCEPT !.abortedAt = apc]
    /\ aresult' = ErrStore
    /\ apc' = "aborted"
    /\ UNCHANGED <<now, ticks, apiKey, db, ingestVars, aruns, ahist, aprev>>
    /\ UNCHANGED <<analyticsVars, calcVars>>

\* ------------------------------------------------------------------------
\* Specifications
\* ------------------------------------------------------------------------

RefreshStep(p) ==
    \/ RefreshSport(p)
    \/ RefreshWarned(p)
    \/ RefreshFetchError(p)
    \/ RefreshFetch(p)
    \/ RefreshWrite(p)
    \/ RefreshStoreError(p)

\* The ingestion pipeline: refreshOdds invocations that may overlap.
Next ==
    \/ Tick
    \/ \E p \in Refreshers : RefreshBegin(p)
    \/ \E p \in Refreshers : RefreshStep(p)

Spec == Init /\ [][Next]_vars

\* Lines 69-227 from start to end: the writes of the loops, in order, the
\* snapshot index counting the snapshot writes.
RECURSIVE ApplyItems(_, _, _, _, _, _)
ApplyItems(d, items, req, batchEpochMs, nowMs, index) ==
    IF items = <<>> THEN d
    ELSE LET w == WriteOf(Head(items), req.sportKey, req.oddsFormat, batchEpochMs, index, nowMs) IN
         ApplyItems(ApplyWrite(d, w), Tail(items), req, batchEpochMs, nowMs,
                    IF w.table = "OddsSnapshot" THEN index + 1 ELSE index)

\* startOddsJobs: the refresh job fires and its refreshOdds call, with the
\* configured params, runs from start to end.
RefreshJob ==
    /\ rruns < MaxRefreshRuns
    /\ rruns' = rruns + 1
    /\ LET req == CronRequest
           withSport == ApplyWrite(db, SportWrite(req.sportKey))
       IN
       IF getOddsGate(apiKey, req.markets) = "warning"
       THEN /\ db' = withSport
            /\ UNCHANGED ahist
       ELSE \E data \in IngestFeeds(req.sportKey, req.oddsFormat) :
              /\ db' = ApplyItems(withSport, RefreshItems(data), req, now, now, 0)
              /\ ahist' = IF db'.OddsSnapshot # db.OddsSnapshot
                          THEN [ahist EXCEPT !.since = TRUE,
                                             !.during = @ \/ apc \in {"find", "insert", "delete"}]
                          ELSE ahist
    /\ UNCHANGED <<now, ticks, apiKey, rpc, rreq, rbatch, rdata, rpos, rindex, rresult, rlog,
                   rhist, snapLog, apc, acall, aresult, aruns, aprev>>
    /\ UNCHANGED <<analyticsVars, calcVars>>

\* The refresh job fires and one of the awaited store writes of its
\* refreshOdds call rejects: the Sport upsert, or a write of the loops after
\* the writes before it have completed.  Nothing is rolled back.
RefreshJobFails ==
    /\ rruns < MaxRefreshRuns
    /\ rruns' = rruns + 1
    /\ LET req == CronRequest
           withSport == ApplyWrite(db, SportWrite(req.sportKey))
       IN
       \/ db' = db /\ UNCHANGED ahist
       \/ /\ getOddsGate(apiKey, req.markets) = "call"
          /\ \E data \in IngestFeeds(req.sportKey, req.oddsFormat) :
               \E done \in 0..(Len(RefreshItems(data)) - 1) :
                  /\ db' = ApplyItems(withSport, SubSeq(RefreshItems(data), 1, done),
                                      req, now, now, 0)
                  /\ ahist' = IF db'.OddsSnapshot # db.OddsSnapshot
                              THEN [ahist EXCEPT !.since = TRUE,
                                                 !.during = @ \/ apc \in {"find", "insert", "delete"}]
                              ELSE ahist
    /\ UNCHANGED <<now, ticks, apiKey, rpc, rreq, rbatch, rdata, rpos, rindex, rresult, rlog,
                   rhist, snapLog, apc, acall, aresult, aruns, aprev>>
    /\ UNCHANGED <<analyticsVars, calcVars>>

\* The snapshot lifecycle: the refresh job and the archive sweep.
NextArchive ==
    \/ Tick
    \/ RefreshJob
    \/ ArchiveBegin
    \/ ArchiveFind
    \/ ArchiveInsert
    \/ ArchiveDelete
    \/ ArchiveAbort

SpecArchive == Init /\ [][NextArchive]_vars

\* archiveOldSnapshots from call to end with no other writer in between: the
\* find rejects; or nothing is old; or insertMany stores some of the docs and
\* deleteMany then rejects or removes the selected rows.
ArchiveSweep ==
    /\ apc = "idle"
    /\ aruns < MaxArchiveRuns
    /\ aruns' = aruns + 1
    /\ \E d \in DaysOldValues :
         LET old == FindOld(db.OddsSnapshot, Cutoff(now, d))
             docs == { ArchiveDoc(o, now) : o \in old }
         IN
         \/ db' = db /\ aresult' = ErrStore
         \/ /\ old = {}
            /\ db' = db
            /\ aresult' = [kind |-> "ok", value |-> [archived |-> 0]]
         \/ /\ old # {}
            /\ \E ok \in SUBSET Insertable(db.OddsSnapshotArchive, docs) :
                 LET stored == [db EXCEPT !.OddsSnapshotArchive = @ \cup ok] IN
                 \/ db' = stored /\ aresult' = ErrStore
                 \/ /\ AfterInsert(ok # docs) = "delete"
                    /\ db' = [stored EXCEPT !.OddsSnapshot = DeleteMany(@, Ids(old))]
                    /\ aresult' = [kind |-> "ok", value |-> [archived |-> Cardinality(old)]]
    /\ UNCHANGED <<now, ticks, apiKey, ingestVars, apc, acall, ahist, aprev>>
    /\ UNCHANGED <<analyticsVars, calcVars>>

\* The store under refresh jobs that complete or fail part-way and archive
\* sweeps.
NextStore == Tick \/ RefreshJob \/ RefreshJobFails \/ ArchiveSweep
SpecStore == Init /\ [][NextStore]_vars

\* ------------------------------------------------------------------------
\* Analytics: ArbitrageService.getArbitrage
\* ------------------------------------------------------------------------

\* Analytics calls made at most this often.
MaxCalls == 2

MinOf(S) == CHOOSE x \in S : \A y \in S : x <= y

\* A guard that lets the totals market through as well.
ArbitrageGuard_totals(market) == market \in {H2H, Totals}

\* if (market !== "h2h") throw UNSUPPORTED_MARKET
ArbitrageGuard(market) == market = H2H

ErrUnsupportedMarket == [kind |-> "error", code |-> "UNSUPPORTED_MARKET", status |-> 422]

\* markets.find((m) => m?.key === market): none, or the first with the key.
FindMarket(bm, market) ==
    LET at == { i \in 1..Len(bm.markets) : bm.markets[i].key = market } IN
    IF at = {} THEN <<>> ELSE << bm.markets[MinOf(at)] >>

\* The (outcome name, bookmaker, price) triples of an event's market in loop
\* order; an outcome with an empty trimmed name or without a price is skipped.
ArbQuotes(ev, market) ==
    FlatMap(LAMBDA bm :
              LET m == FindMarket(bm, market) IN
              IF m = <<>> THEN <<>>
              ELSE FlatMap(LAMBDA o :
                             IF trim(o.name) = <<>> \/ o.price = <<>> THEN <<>>
                             ELSE << [outcome |-> trim(o.name), bookmaker |-> bm.key,
                                      price |-> o.price[1]] >>,
                           m[1].outcomes),
            ev.bookmakers)

\* best[outcomeName]: the first quote of a name, replaced by a later one only if
\* its price is strictly higher; the names keep their insertion order.
RECURSIVE BestPrices(_, _)
BestPrices(best, quotes) ==
    IF quotes = <<>> THEN best
    ELSE LET q == Head(quotes)
             at == { i \in 1..Len(best) : best[i].outcome = q.outcome }
         IN
         BestPrices(IF at = {} THEN Append(best, q)
                    ELSE IF best[MinOf(at)].price < q.price
                         THEN [best EXCEPT ![MinOf(at)] = q]
                         ELSE best,
                    Tail(quotes))

\* A leg; a decimal value that is not above 0 has no implied probability.
ArbitrageLeg(b) ==
    LET dec == americanToDecimal(b.price) IN
    [outcome |-> b.outcome,
     bestBookmaker |-> b.bookmaker,
     bestPrice |-> b.price,
     decimalOdds |-> dec,
     impliedProbability |-> IF RLess(RZero, dec) THEN << RInv(dec) >> ELSE <<>>]

\* l.impliedProbability ?? 0
ImpliedOrZero(leg) ==
    IF leg.impliedProbability = <<>> THEN RZero ELSE leg.impliedProbability[1]

\* (1 / impliedSum - 1) * 100
EdgePercent(impliedSum) == RMul(RSub(RInv(impliedSum), ROne), RInt(100))

\* The opportunities of one event: none or one.
Opportunity(ev, sport, market) ==
    LET best == BestPrices(<<>>, ArbQuotes(ev, market)) IN
    IF Len(best) # 2 THEN <<>>
    ELSE LET legs == << ArbitrageLeg(best[1]), ArbitrageLeg(best[2]) >>
             impliedSum == RAdd(ImpliedOrZero(legs[1]), ImpliedOrZero(legs[2]))
         IN
         IF RLeq(impliedSum, RZero) THEN <<>>
         ELSE IF RLess(impliedSum, ROne)
         THEN << [eventId |-> ev.id, commenceTime |-> ev.commence_time,
                  homeTeam |-> ev.home_team, awayTeam |-> ev.away_team,
                  sportKey |-> sport, market |-> market,
                  impliedSum |-> impliedSum, edgePercent |-> EdgePercent(impliedSum),
                  legs |-> legs] >>
         ELSE <<>>

\* Array.prototype.sort with the comparator before(a, b): stable.
RECURSIVE InsertSorted(_, _, _)
InsertSorted(Before(_, _), x, s) ==
    IF s = <<>> THEN << x >>
    ELSE IF Before(x, Head(s)) THEN << x >> \o s
    ELSE << Head(s) >> \o InsertSorted(Before, x, Tail(s))

RECURSIVE SortBy(_, _)
SortBy(Before(_, _), s) ==
    IF s = <<>> THEN <<>>
    ELSE InsertSorted(Before, s[Len(s)], SortBy(Before, SubSeq(s, 1, Len(s) - 1)))

\* out.sort((a, b) => b.edgePercent - a.edgePercent)
SortByEdge(out) == SortBy(LAMBDA a, b : RLess(b.edgePercent, a.edgePercent), out)

Max2(a, b) == IF a > b THEN a ELSE b
Min2(a, b) == IF a < b THEN a ELSE b

DefaultTop == 50
ArbitrageTopCap == 200

\* A number argument is <<>> when omitted, <<n>> for the number n, or NaN.
NaN == <<"N", "a", "N">>

\* Math.max(1, Math.min(200, top)), top = 50 when omitted.  Math.min and
\* Math.max answer NaN when an argument is NaN, and slice(0, NaN) is slice(0, 0).
ArbitrageLimit(top) ==
    IF top = NaN THEN 0
    ELSE Max2(1, Min2(ArbitrageTopCap, IF top = <<>> THEN DefaultTop ELSE top[1]))

\* data: out.slice(0, limit)
ArbitrageData(events, sport, market, top) ==
    slice0(SortByEdge(FlatMap(LAMBDA ev : Opportunity(ev, sport, market), events)),
           ArbitrageLimit(top))

\* ------------------------------------------------------------------------
\* Analytics: the payloads the odds endpoints answer with
\* ------------------------------------------------------------------------

TeamA == <<"A">>
TeamB == <<"B">>
Str_Draw == <<"D","r","a","w">>
Str_dk == <<"d","k">>
Str_fd == <<"f","d">>

\* A bookmaker quoting the two sides of a head-to-head market.
TwoWay(book, priceA, priceB) ==
    Bookmaker(book, book, <<>>,
        << MarketOf(H2H, << Outcome(TeamA, <<>>, <<>>, priceA),
                            Outcome(TeamB, <<>>, <<>>, priceB) >>) >>)

Game(id, commence, bookmakers) == Event(id, TeamA, TeamB, commence, bookmakers)

\* Best prices +150 (dk) and -120 (fd): 2/5 + 6/11 < 1. fd pads a name and
\* lists a market it does not quote before its h2h market.
EvArb ==
    Game(<<"g","1">>, <<20>>,
         << TwoWay(Str_dk, <<150>>, <<-200>>),
            Bookmaker(Str_fd, Str_fd, <<>>,
                << MarketOf(Totals, <<>>),
                   MarketOf(H2H, << Outcome(<<"A"," ">>, <<>>, <<>>, <<120>>),
                                    Outcome(TeamB, <<>>, <<>>, <<-120>>) >>) >>) >>)

\* -200 and +150: 2/3 + 2/5 >= 1.
EvNoArb == Game(<<"g","2">>, <<10>>, << TwoWay(Str_dk, <<-200>>, <<150>>) >>)

\* +150 on both sides at two books: 2/5 + 2/5.
EvBigArb ==
    Game(<<"g","3">>, <<30>>,
         << TwoWay(Str_dk, <<150>>, <<-300>>), TwoWay(Str_fd, <<-300>>, <<150>>) >>)

\* A price of 0 on one side.
EvZero == Game(<<"g","4">>, <<10>>, << TwoWay(Str_dk, <<0>>, <<150>>) >>)

\* A price of 0 on both sides.
EvBothZero == Game(<<"g","5">>, <<10>>, << TwoWay(Str_dk, <<0>>, <<0>>) >>)

\* Three outcome names.
EvThree ==
    Game(<<"g","6">>, <<10>>,
         << Bookmaker(Str_dk, Str_dk, <<>>,
                << MarketOf(H2H, << Outcome(TeamA, <<>>, <<>>, <<300>>),
                                    Outcome(TeamB, <<>>, <<>>, <<300>>),
                                    Outcome(Str_Draw, <<>>, <<>>, <<300>>) >>) >>) >>)

\* One priced outcome name: the other side has no price.
EvOne == Game(<<"g","7">>, <<>>, << TwoWay(Str_dk, <<150>>, <<>>) >>)

H2HFeeds ==
    { <<>>, << EvArb >>, << EvNoArb, EvArb, EvBigArb >>, << EvZero >>,
      << EvBothZero, EvThree, EvOne >> }

\* ------------------------------------------------------------------------
\* Analytics: CheatSheetService.getPlayerPropsCheatSheet
\* ------------------------------------------------------------------------

Str_Over == <<"O","v","e","r">>
Str_Under == <<"U","n","d","e","r">>
Str_Lee == <<"L","e","e">>
Str_null == <<"n","u","l","l">>
Bar == <<"|">>

\* Over/Under 3 at two books: the better Over is +105 at fd, the better Under
\* -110 at dk.
EvTotals ==
    Game(<<"g","1">>, <<20>>,
         << Bookmaker(Str_dk, Str_dk, <<>>,
                << MarketOf(Totals, << Outcome(Str_Over, <<>>, <<3>>, <<-110>>),
                                       Outcome(Str_Under, <<>>, <<3>>, <<-110>>) >>) >>),
            Bookmaker(Str_fd, Str_fd, <<>>,
                << MarketOf(Totals, << Outcome(Str_Over, <<>>, <<3>>, <<105>>),
                                       Outcome(Str_Under, <<>>, <<3>>, <<-120>>) >>) >>) >>)

\* An earlier game: an Over without line and price, then the same at price 0,
\* and an outcome without a name.
EvTotalsBare ==
    Game(<<"g","2">>, <<10>>,
         << Bookmaker(Str_dk, Str_dk, <<>>,
                << MarketOf(Totals, << Outcome(Str_Over, <<>>, <<>>, <<>>),
                                       Outcome(<<>>, <<>>, <<3>>, <<-110>>) >>) >>),
            Bookmaker(Str_fd, Str_fd, <<>>,
                << MarketOf(Totals, << Outcome(Str_Over, <<>>, <<>>, <<0>>) >>) >>) >>)

TotalsFeeds == { <<>>, << EvTotals >>, << EvTotals, EvTotalsBare >> }

\* A player's points line at two books, and an outcome that names no player.
EvProps ==
    Game(<<"g","1">>, <<20>>,
         << Bookmaker(Str_dk, Str_dk, <<>>,
                << MarketOf(PlayerPoints, << Outcome(Str_Over, Str_Lee, <<20>>, <<-110>>),
                                             Outcome(Str_Under, Str_Lee, <<20>>, <<-115>>),
                                             Outcome(Str_Over, <<>>, <<20>>, <<200>>) >>) >>),
            Bookmaker(Str_fd, Str_fd, <<>>,
                << MarketOf(PlayerPoints, << Outcome(Str_Over, Str_Lee, <<20>>, <<100>>) >>) >>) >>)

\* A listed event without an id.
EvNoId == Game(<<>>, <<10>>, <<>>)

Str_mgm == <<"m","g","m">>
Str_cz == <<"c","z">>

\* One player's line quoted at four books: without a price, at -110 and twice
\* at +105.
LeeOver(book, price) ==
    Bookmaker(book, book, <<>>,
        << MarketOf(PlayerPoints, << Outcome(Str_Over, Str_Lee, <<20>>, price) >>) >>)

LeeBooks ==
    { LeeOver(Str_dk, <<>>), LeeOver(Str_fd, <<-110>>),
      LeeOver(Str_mgm, <<105>>), LeeOver(Str_cz, <<105>>) }

\* The four books in every order the feed can list them.
EvLeeOrders ==
    { Game(<<"g","2">>, <<30>>, bms) :
        bms \in { f \in [1..4 -> LeeBooks] : \A i, j \in 1..4 : i # j => f[i] # f[j] } }

\* The events /sports/{sport}/events lists; /events/{id}/odds answers with the
\* listed event and its bookmakers.
EventFeeds == { <<>>, << EvProps >>, << EvNoId, EvProps >> } \cup { << ev >> : ev \in EvLeeOrders }

\* CheatSheetService's own americanToImpliedProb: NaN (no value) for 0.
CheatSheet_americanToImpliedProb(price) ==
    IF price = 0 THEN <<>>
    ELSE IF price < 0 THEN << Rat(Abs(price), Abs(price) + 100) >>
    ELSE << Rat(100, price + 100) >>

\* `${eventId}|${player}|${side}|${line ?? "null"}`
CheatKey(eventId, player, side, line) ==
    eventId \o Bar \o player \o Bar \o side \o Bar
        \o (IF line = <<>> THEN Str_null ELSE NumToStr(line[1]))

\* The candidate row of one outcome, or nothing if it has no player or side.
Candidate(ev, bm, o, sport, market) ==
    LET outcomeName == trim(o.name)
        participant == trim(o.description)
        isPlayerProp == startsWith(toLowerCase(market), PlayerPrefix)
        player == IF isPlayerProp THEN participant ELSE OrElse(outcomeName, participant)
        side == IF isPlayerProp THEN outcomeName ELSE market
    IN
    IF player = <<>> \/ side = <<>> THEN <<>>
    ELSE << [key |-> CheatKey(ev.id, player, side, o.point),
             row |-> [eventId |-> ev.id, commenceTime |-> ev.commence_time,
                      homeTeam |-> ev.home_team, awayTeam |-> ev.away_team,
                      sportKey |-> sport, player |-> player, side |-> side,
                      line |-> o.point,
                      bestBookmaker |-> bm.key,
                      bestPrice |-> o.price,
                      impliedProbability |->
                          IF o.price = <<>> THEN <<>>
                          ELSE CheatSheet_americanToImpliedProb(o.price[1])]] >>

\* The candidates of the events in loop order.
Candidates(events, sport, market) ==
    FlatMap(LAMBDA ev :
      FlatMap(LAMBDA bm :
                LET m == FindMarket(bm, market) IN
                IF m = <<>> THEN <<>>
                ELSE FlatMap(LAMBDA o : Candidate(ev, bm, o, sport, market), m[1].outcomes),
              ev.bookmakers),
      events)

Replaces_orEqual(cand, existing) ==
    \/ existing.bestPrice = <<>> /\ cand.bestPrice # <<>>
    \/ /\ existing.bestPrice # <<>> /\ cand.bestPrice # <<>>
       /\ cand.bestPrice[1] >= existing.bestPrice[1]

\* Whether the candidate replaces the row bestMap holds under its key.
Replaces(cand, existing) ==
    \/ existing.bestPrice = <<>> /\ cand.bestPrice # <<>>
    \/ /\ existing.bestPrice # <<>> /\ cand.bestPrice # <<>>
       /\ cand.bestPrice[1] > existing.bestPrice[1]

\* bestMap after the loops: one entry per key, in insertion order.
RECURSIVE BestMap(_, _)
BestMap(map, cands) ==
    IF cands = <<>> THEN map
    ELSE LET c == Head(cands)
             at == { i \in 1..Len(map) : map[i].key = c.key }
         IN
         BestMap(IF at = {} THEN Append(map, c)
                 ELSE IF Replaces(c.row, map[MinOf(at)].row)
                      THEN [map EXCEPT ![MinOf(at)] = c]
                      ELSE map,
                 Tail(cands))

\* a.commenceTime ? Date.parse(a.commenceTime) : 0
CommenceMs(row) == IF row.commenceTime = <<>> THEN 0 ELSE row.commenceTime[1]

\* a.impliedProbability ?? 1
ImpliedOrOne(row) == IF row.impliedProbability = <<>> THEN ROne ELSE row.impliedProbability[1]

\* rows.sort: soonest event first, then lower implied probability first.
SortRows(rows) ==
    SortBy(LAMBDA a, b : \/ CommenceMs(a) < CommenceMs(b)
                         \/ /\ CommenceMs(a) = CommenceMs(b)
                            /\ RLess(ImpliedOrOne(a), ImpliedOrOne(b)),
           rows)

CheatSheetTopCap == 500

\* Math.max(1, Math.min(500, top)), top = 50 when omitted; NaN stays NaN and
\* slice(0, NaN) is slice(0, 0).
CheatSheetLimit(top) ==
    IF top = NaN THEN 0
    ELSE Max2(1, Min2(CheatSheetTopCap, IF top = <<>> THEN DefaultTop ELSE top[1]))

\* data: rows.slice(0, limit)
CheatSheetData(events, sport, market, top) ==
    LET map == BestMap(<<>>, Candidates(events, sport, market)) IN
    slice0(SortRows([i \in 1..Len(map) |-> map[i].row]), CheatSheetLimit(top))

maxEventsToFetch == 10

\* The listed events whose odds are fetched: the first ten, those with an id.
Selected(evs) ==
    FlatMap(LAMBDA ev : IF ev.id = <<>> THEN <<>> ELSE << ev >>, slice0(evs, maxEventsToFetch))

\* ------------------------------------------------------------------------
\* Analytics entry points
\* ------------------------------------------------------------------------

AnalyticsSport == Str_nba
ArbitrageMarkets == {H2H, Totals, PlayerPoints}
TopValues == {<<>>, <<0>>, <<1>>, <<2>>, NaN}

Ok(value) == [kind |-> "ok", value |-> value]

\* { data: [], remaining: 0, warning } as the Feed Client reports it, passed on.
WarningResult == Ok([data |-> <<>>, remaining |-> 0, warning |-> WarningNotConfigured])

\* The events /sports/{sport}/odds answers with for one market.
OddsFeeds(market) ==
    IF market = H2H THEN H2HFeeds
    ELSE IF market = Totals THEN TotalsFeeds
    ELSE {<<>>}

\* ArbitrageService.getArbitrage
GetArbitrage ==
    /\ qruns < MaxCalls
    /\ qruns' = qruns + 1
    /\ \E market \in ArbitrageMarkets, top \in TopValues :
         /\ qcall' = [op |-> "getArbitrage", sport |-> AnalyticsSport,
                      market |-> market, top |-> top]
         /\ IF ~ArbitrageGuard(market)
            THEN /\ qfeed' = <<>>
                 /\ qdata' = <<>>
                 /\ qresult' = ErrUnsupportedMarket
            ELSE /\ qfeed' = << "getOdds" >>
                 /\ IF getOddsGate(apiKey, << market >>) = "warning"
                    THEN qdata' = <<>> /\ qresult' = WarningResult
                    ELSE IF getOddsGate(apiKey, << market >>) = "invalid"
                    THEN qdata' = <<>> /\ qresult' = ErrInvalidMarket
                    ELSE \/ qdata' = <<>> /\ qresult' = ErrUpstream
                         \/ \E data \in OddsFeeds(market), remaining \in RemainingValues :
                              /\ qdata' = data
                              /\ qresult' = Ok([data |-> ArbitrageData(data, AnalyticsSport,
                                                                      market, top),
                                               remaining |-> remaining])
    /\ qresponse' = NoResult
    /\ UNCHANGED <<now, ticks, apiKey, db, ingestVars, archiveVars, calcVars>>

Str_NBA == <<"N","B","A">>
Str_Basketball == <<"B","a","s","k","e","t","b","a","l","l">>
Str_Unknown == <<"U","n","k","n","o","w","n">>

\* What getSports hands to getSportByKey: nothing without a key or when the
\* request fails, else the listing, with or without the sport.
SportsListings(key) ==
    IF ~key THEN { <<>> }
    ELSE { <<>>, << [key |-> AnalyticsSport, title |-> Str_NBA, group |-> Str_Basketball] >> }

\* sports.find((s) => s.key === sportKey) || null
getSportByKey(listing, sportKey) ==
    LET at == { i \in 1..Len(listing) : listing[i].key = sportKey } IN
    IF at = {} THEN <<>> ELSE << listing[MinOf(at)] >>

\* PositiveEVService.findPositiveEVBets: the bets it may report for a payload,
\* each on one of the payload's events; none for an empty payload.
PositiveEVBets(data) == SUBSET { data[i].id : i \in 1..Len(data) }

PositiveEVMarkets == { DefaultMarkets, << PlayerPoints >> }

Response(status, body) == [kind |-> "response", status |-> status, body |-> body]

\* res.status(500).json({ success: false, error: { message } })
Failure500 == Response(500, [success |-> FALSE])

\* res.json({ success: true, data: { sport, region, count, bets } })
PositiveEVResponse(sportKey, sport, bets) ==
    Response(200,
        [success |-> TRUE,
         data |-> [sport |-> [key |-> sportKey,
                              title |-> IF sport = <<>> THEN sportKey ELSE sport[1].title,
                              group |-> IF sport = <<>> THEN Str_Unknown ELSE sport[1].group],
                   region |-> "us",
                   count |-> Cardinality(bets),
                   bets |-> bets]])

\* sportsToolsController.getPositiveEV
GetPositiveEV ==
    /\ qruns < MaxCalls
    /\ qruns' = qruns + 1
    /\ \E markets \in PositiveEVMarkets, listing \in SportsListings(apiKey) :
         LET sport == getSportByKey(listing, AnalyticsSport)
             gate == getOddsGate(apiKey, markets)
         IN
         /\ qcall' = [op |-> "getPositiveEV", sport |-> AnalyticsSport, markets |-> markets]
         /\ qfeed' = << "getSports", "getOdds" >>
         /\ IF gate = "invalid"
            THEN qdata' = <<>> /\ qresult' = Failure500
            ELSE IF gate = "warning"
            THEN /\ qdata' = <<>>
                 /\ \E bets \in PositiveEVBets(<<>>) :
                      qresult' = PositiveEVResponse(AnalyticsSport, sport, bets)
            ELSE \/ qdata' = <<>> /\ qresult' = Failure500
                 \/ \E data \in H2HFeeds : \E bets \in PositiveEVBets(data) :
                      /\ qdata' = data
                      /\ qresult' = PositiveEVResponse(AnalyticsSport, sport, bets)
    /\ qresponse' = qresult'
    /\ UNCHANGED <<now, ticks, apiKey, db, ingestVars, archiveVars, calcVars>>

CheatSheetMarkets == {H2H, Totals, PlayerPoints}

\* The digits of a string as a number.
RECURSIVE DigitsToNat(_)
DigitsToNat(s) ==
    IF s = <<>> THEN 0
    ELSE 10 * DigitsToNat(SubSeq(s, 1, Len(s) - 1)) + (IndexIn(DigitSeq, s[Len(s)]) - 1)

\* Number(string): 0 for an empty or blank string, the number for a string of
\* digits, NaN for a string that is not a numeric literal.
NumberOf(s) ==
    LET t == trim(s) IN
    IF t = <<>> THEN <<0>>
    ELSE IF Range(t) \subseteq Range(DigitSeq) THEN << DigitsToNat(t) >>
    ELSE NaN

\* The top query parameter: absent (<<>>) or a string (<<s>>).
TopQueries == { <<>>, << <<>> >>, << <<"1">> >>, << <<"2">> >>, << <<"a","b","c">> >> }

\* req.query.top != null ? Number(req.query.top) : undefined
QueryTop(query) == IF query = <<>> THEN <<>> ELSE NumberOf(query[1])

\* res.json({ success: true, data: { cheatSheet: sheet } }), or status 500
\* for whatever the service threw.
CheatSheetResponse(result) ==
    IF result.kind = "ok"
    THEN Response(200, [success |-> TRUE, data |-> [cheatSheet |-> result.value]])
    ELSE Failure500

\* sportsToolsController.getCheatSheet with sport and market given, and
\* CheatSheetService.getPlayerPropsCheatSheet that it calls.
GetCheatSheet ==
    /\ qruns < MaxCalls
    /\ qruns' = qruns + 1
    /\ \E market \in CheatSheetMarkets, query \in TopQueries :
         LET top == QueryTop(query) IN
         /\ qcall' = [op |-> "getCheatSheet", sport |-> AnalyticsSport,
                      market |-> market, top |-> top, topQuery |-> query]
         /\ IF ~startsWith(toLowerCase(market), PlayerPrefix)
            THEN /\ qfeed' = << "getOdds" >>
                 /\ IF getOddsGate(apiKey, << market >>) = "warning"
                    THEN qdata' = <<>> /\ qresult' = WarningResult
                    ELSE \/ qdata' = <<>> /\ qresult' = ErrUpstream
                         \/ \E data \in OddsFeeds(market), remaining \in RemainingValues :
                              /\ qdata' = data
                              /\ qresult' = Ok([data |-> CheatSheetData(data, AnalyticsSport,
                                                                       market, top),
                                               remaining |-> remaining])
            ELSE IF ~apiKey
                 THEN qfeed' = << "getEvents" >> /\ qdata' = <<>> /\ qresult' = WarningResult
                 ELSE \/ qfeed' = << "getEvents" >> /\ qdata' = <<>> /\ qresult' = ErrUpstream
                      \/ \E evs \in EventFeeds, remaining \in RemainingValues :
                           LET selected == Selected(evs) IN
                           \/ \E n \in 1..Len(selected) :
                                /\ qfeed' = << "getEvents" >> \o [i \in 1..n |-> "getEventOdds"]
                                /\ qdata' = SubSeq(selected, 1, n - 1)
                                /\ qresult' = ErrUpstream
                           \/ /\ qfeed' = << "getEvents" >>
                                          \o [i \in 1..Len(selected) |-> "getEventOdds"]
                              /\ qdata' = selected
                              /\ qresult' = Ok([data |-> CheatSheetData(selected, AnalyticsSport,
                                                                       market, top),
                                               remaining |-> remaining])
    /\ qresponse' = CheatSheetResponse(qresult')
    /\ UNCHANGED <<now, ticks, apiKey, db, ingestVars, archiveVars, calcVars>>

NextAnalytics == GetArbitrage \/ GetPositiveEV \/ GetCheatSheet

SpecAnalytics == Init /\ [][NextAnalytics]_vars

\* ------------------------------------------------------------------------
\* The identity deriver and the odds math applied to inputs of their own
\* ------------------------------------------------------------------------

MaxIdCalls == 2
MaxOdds == 300

otherVars == <<now, ticks, apiKey, db, ingestVars, archiveVars, analyticsVars>>

\* Natural keys of markets: a derived event id, a derived sportsbook id and
\* the market key as the feed spells it.
MarketKeys ==
    { <<makeEventId(e), makeSportsbookId(b), k>> :
        e \in { <<"e","1">>, <<"e","2">> },
        b \in { Str_dk, Str_fd },
        k \in { H2H, <<"H","2","H">>, Totals } }

Str_JSmith == <<"J"," ","S","m","i","t","h">>
Str_JDotSmith == <<"J","."," ","S","m","i","t","h">>
Str_OverColon3 == <<"O","v","e","r",":","3">>

\* Natural keys of selections: a market id, the outcome name as the feed
\* spells it and the line, if any.
SelectionKeys ==
    { <<makeMarketId(makeEventId(<<"e","1">>), makeSportsbookId(Str_dk), k), n, pt>> :
        k \in { H2H, Totals },
        n \in { Str_Over, Str_Under, Str_OverColon3, Str_JSmith, Str_JDotSmith },
        pt \in { <<>>, <<3>> } }

\* makeMarketId applied to a natural key
MakeMarketId ==
    /\ Cardinality(idTable) < MaxIdCalls
    /\ \E key \in MarketKeys :
         idTable' = idTable \cup { [fn |-> "makeMarketId", key |-> key,
                                    id |-> makeMarketId(key[1], key[2], key[3])] }
    /\ UNCHANGED <<otherVars, conv, batch, perm>>

\* makeSelectionId applied to a natural key
MakeSelectionId ==
    /\ Cardinality(idTable) < MaxIdCalls
    /\ \E key \in SelectionKeys :
         idTable' = idTable \cup { [fn |-> "makeSelectionId", key |-> key,
                                    id |-> makeSelectionId(key[1], key[2], key[3])] }
    /\ UNCHANGED <<otherVars, conv, batch, perm>>

NextIds == MakeMarketId \/ MakeSelectionId
SpecIds == Init /\ [][NextIds]_vars

\* The three conversions of odds.ts applied to one American price.
ConvertOdds ==
    /\ \E x \in (0 - MaxOdds)..MaxOdds :
         conv' = [kind |-> "american", x |-> x,
                  implied |-> americanToImpliedProb(x),
                  decimal |-> americanToDecimal(x),
                  viaDecimal |-> decimalToImpliedProb(americanToDecimal(x))]
    /\ UNCHANGED <<otherVars, idTable, batch, perm>>

NextOdds == ConvertOdds
SpecOdds == Init /\ [][NextOdds]_vars

\* The sizes of a feed payload: events, bookmakers per event, markets per
\* bookmaker, outcomes per market.  A slate of sixteen games quoted by twelve
\* books on the three default markets has 1152 outcomes.
FeedShapes ==
    { [events |-> 1, bookmakers |-> 1, markets |-> 1, outcomes |-> 2],
      [events |-> 16, bookmakers |-> 12, markets |-> 3, outcomes |-> 2] }

\* The outcomes the loops of refreshOdds visit.
OutcomeCount(b) == b.events * b.bookmakers * b.markets * b.outcomes

\* Lines 36 and 67: the batch reads the clock and starts its counter at 0.
BatchBegin ==
    /\ batch.pc = "idle"
    /\ \E shape \in FeedShapes :
         batch' = [pc |-> "loop", events |-> shape.events, bookmakers |-> shape.bookmakers,
                   markets |-> shape.markets, outcomes |-> shape.outcomes,
                   batchEpochMs |-> now, snapshotIndex |-> 0, written |-> <<>>,
                   ingestedSnapshots |-> <<>>]
    /\ UNCHANGED <<otherVars, idTable, conv, perm>>

\* Lines 202-221: the next outcome's snapshot is written under
\* makeOddsSnapshotId(batchEpochMs, snapshotIndex++).
BatchSnapshot ==
    /\ batch.pc = "loop"
    /\ batch.snapshotIndex < OutcomeCount(batch)
    /\ batch' = [batch EXCEPT
                   !.written = << [index |-> batch.snapshotIndex,
                                   id |-> makeOddsSnapshotId(batch.batchEpochMs,
                                                             batch.snapshotIndex)] >>,
                   !.snapshotIndex = batch.snapshotIndex + 1]
    /\ UNCHANGED <<otherVars, idTable, conv, perm>>

\* Line 227: return { ingestedSnapshots: snapshotIndex, remaining }
BatchReturn ==
    /\ batch.pc = "loop"
    /\ batch.snapshotIndex = OutcomeCount(batch)
    /\ batch' = [batch EXCEPT !.pc = "done", !.ingestedSnapshots = << batch.snapshotIndex >>]
    /\ UNCHANGED <<otherVars, idTable, conv, perm>>

NextBatch == BatchBegin \/ BatchSnapshot \/ BatchReturn
SpecBatch == Init /\ [][NextBatch]_vars

MaxOrderEvents == 3

\* The events a payload is made of: two spellings of one game, and two other
\* games that share a team and a bookmaker with it.
OrderPool == { FeedOne[1], FeedTwo[1], FeedDecimal[1], FeedNfl[1] }

\* The sequences of n different members of S.
Arrangements(n, S) == { f \in [1..n -> S] : \A i, j \in 1..n : i # j => f[i] # f[j] }

OrderFeeds == UNION { Arrangements(n, OrderPool) : n \in 1..MaxOrderEvents }

\* refreshOdds from start to end on the empty store at time 0.
WholeBatch(req, data) ==
    ApplyItems(ApplyWrite(EmptyDb, SportWrite(req.sportKey)), RefreshItems(data), req, 0, 0, 0)

\* One payload ingested twice, each time into an empty store: with its events
\* as listed, and with the same events in another order.
RefreshReordered ==
    /\ perm.kind = "none"
    /\ \E data \in OrderFeeds : \E order \in Arrangements(Len(data), 1..Len(data)) :
         LET req == [sportKey |-> Str_nba, markets |-> <<>>, oddsFormat |-> ""] IN
         perm' = [kind |-> "ran", data |-> data, order |-> order,
                  listed |-> WholeBatch(req, data),
                  reordered |-> WholeBatch(req, [i \in 1..Len(data) |-> data[order[i]]])]
    /\ UNCHANGED <<otherVars, idTable, conv, batch>>

NextOrder == RefreshReordered
SpecOrder == Init /\ [][NextOrder]_vars

\* ------------------------------------------------------------------------
\* Ingestion properties
\* ------------------------------------------------------------------------

\* C1: every OddsSnapshot write of refreshOdds uses an id that no other
\* snapshot write has used (same batch or any other invocation, sequential or
\* overlapping), so a snapshot write never lands on an existing hot row.
SnapshotIdsNeverReused ==
    /\ \A a, b \in snapLog : a.id = b.id => a = b
    /\ \A a \in snapLog : a.fresh

EntityTables == {"Sport", "Team", "SportEvent", "Sportsbook", "Market", "MarketSelection"}

\* A row without its timestamps (SportEvent.starts_at).
Untimed(table, row) ==
    IF table = "SportEvent" THEN [f \in DOMAIN row \ {"starts_at"} |-> row[f]] ELSE row

IgnoringTimestamps(d) == [t \in EntityTables |-> { Untimed(t, r) : r \in d[t] }]

\* The store after one complete refreshOdds on the empty store, begun at time 0.
OneCompleteRun(req, data) ==
    ApplyItems(ApplyWrite(EmptyDb, SportWrite(req.sportKey)), RefreshItems(data), req, 0, 0, 0)

\* q ran to completion after p had ended, with the same params and the same
\* feed output.
RanTwice(p, q) ==
    /\ p # q
    /\ p \in rhist[q].after
    /\ rpc[q] = "done"
    /\ rhist[p].fetched /\ rhist[q].fetched
    /\ rreq[p] = rreq[q]
    /\ rdata[p] = rdata[q]

\* C2: two refreshOdds runs in sequence on identical feed output, the first
\* complete or failed part-way, leave the six entity tables with the ids and
\* the row contents, timestamps aside, of one complete run.
RefreshIdempotent ==
    \A p, q \in Refreshers :
        RanTwice(p, q) =>
            IgnoringTimestamps(db) = IgnoringTimestamps(OneCompleteRun(rreq[q], rdata[q]))

\* A run that failed after writing a market, repeated to completion a day later.
RefreshIdempotentWitness ==
    \E p, q \in Refreshers :
        /\ RanTwice(p, q)
        /\ rpc[p] = "failed"
        /\ "Market" \in rhist[p].written
        /\ "MarketSelection" \notin rhist[p].written
        /\ db.MarketSelection # {}
        /\ now > 0

\* C7: without a credential refreshOdds does not raise, returns
\* ingestedSnapshots = 0 together with the warning, and has written nothing
\* but the Sport row.
RefreshDegradedReturnsWarning ==
    \A p \in Refreshers :
        (rpc[p] = "done" /\ ~apiKey) =>
            /\ rresult[p].kind = "ok"
            /\ rresult[p].value.ingestedSnapshots = 0
            /\ "warning" \in DOMAIN rresult[p].value
            /\ rhist[p].written \subseteq {"Sport"}

\* ------------------------------------------------------------------------
\* Snapshot lifecycle properties
\* ------------------------------------------------------------------------

Returned == apc = "done"

NotBefore(rows, cutoff) == { r \in rows : ~(r.fetched_at < cutoff) }

SameFields(a, o) == \A f \in DOMAIN o : f \in DOMAIN a /\ a[f] = o[f]

ArchivedCopies(o) == { a \in ahist.archiveAfter : a.id = o.id }

\* C4 as claimed: when the sweep returns, every snapshot it selected is in the
\* archive under its id with the same field values.
ArchivedRowsAreInArchive ==
    Returned => \A o \in acall.old : \E a \in ArchivedCopies(o) : SameFields(a, o)

\* C4: when the sweep returns, every selected snapshot that the bulk insert
\* stored is in the archive under its id with the same field values and an
\* archived-at timestamp, and if the insert did not fail every selected
\* snapshot is; a snapshot whose insert failed has been evicted all the same.
StoredRowsAreInArchive ==
    Returned =>
        \A o \in acall.old :
            /\ o.id \in Ids(acall.inserted) =>
                   \E a \in ArchivedCopies(o) : SameFields(a, o) /\ "archived_at" \in DOMAIN a
            /\ ~acall.insertFailed => o.id \in Ids(acall.inserted)
            /\ o.id \notin Ids(ahist.hotAfter)

\* A sweep whose insert stored one of two selected rows and lost the other.
StoredRowsWitness ==
    /\ Returned
    /\ acall.insertFailed
    /\ \E o \in acall.old : o.id \in Ids(acall.inserted)
    /\ \E o \in acall.old : ArchivedCopies(o) = {}

\* C5: a second sweep right after a completed one (same cutoff, no refresh
\* write since the first was called) returns 0 and changes neither table; a
\* sweep run after one that stopped between the copy and the delete evicts
\* the rows that one selected; and the archive never holds two rows under
\* one snapshot id.
ArchiveRerunSafe ==
    /\ \A a, b \in db.OddsSnapshotArchive : a.id = b.id => a = b
    /\ (Returned /\ aruns >= 2 /\ ~aprev.dirty /\ ~ahist.during
          /\ acall.cutoff = aprev.cutoff) =>
         /\ aprev.phase = "done" =>
              /\ aresult.value.archived = 0
              /\ ahist.hotAfter = ahist.hot
              /\ ahist.archiveAfter = ahist.archive
         /\ aprev.phase = "delete" =>
              /\ Ids(aprev.old) \cap Ids(ahist.hotAfter) = {}
              /\ aresult.value.archived = Cardinality(aprev.old)

\* A sweep repeated after one that stopped between the copy and the delete:
\* every doc of the second is a duplicate of an archived row.
ArchiveRerunWitness ==
    /\ Returned /\ aruns >= 2 /\ ~aprev.dirty /\ ~ahist.during
    /\ acall.cutoff = aprev.cutoff
    /\ aprev.phase = "delete"
    /\ aprev.old # {}
    /\ acall.insertFailed
    /\ Ids(acall.old) \subseteq Ids(ahist.archive)

\* C6: a failed bulk insert never fails the sweep: it goes on to the delete,
\* every selected row is deleted from the hot table and the sweep returns the
\* number of rows it selected.
ArchiveInsertFailureSwallowed ==
    /\ apc = "aborted" => acall.abortedAt \in {"find", "delete"}
    /\ acall.insertFailed => apc \in {"delete", "done", "aborted"}
    /\ (Returned /\ acall.insertFailed) =>
         /\ aresult.kind = "ok"
         /\ aresult.value.archived = Cardinality(acall.old)
         /\ Ids(acall.old) \cap Ids(ahist.hotAfter) = {}

\* A sweep that selected two rows, stored none of them, and returned 2.
ArchiveInsertFailureWitness ==
    /\ Returned
    /\ acall.insertFailed
    /\ acall.inserted = {}
    /\ Cardinality(acall.old) = 2
    /\ aresult.value.archived = 2

\* ------------------------------------------------------------------------
\* Analytics properties
\* ------------------------------------------------------------------------

\* The result carries the Feed Client's warning, with no data and no error.
CarriesWarning ==
    IF qcall.op = "getPositiveEV"
    THEN /\ qresult.kind = "response" /\ qresult.status = 200
         /\ qresult.body.data.bets = {}
         /\ "warning" \in DOMAIN qresult.body.data
         /\ qresult.body.data.warning = WarningNotConfigured
    ELSE /\ qresult.kind = "ok"
         /\ qresult.value.data = <<>>
         /\ "warning" \in DOMAIN qresult.value
         /\ qresult.value.warning = WarningNotConfigured

\* C8: with no credential, getArbitrage (on h2h), the cheat sheet on both its
\* paths and getPositiveEV each end without error, with an empty data set and
\* the warning text in the result.
AnalyticsPassWarningThrough ==
    (~apiKey /\ qcall.op \in {"getArbitrage", "getCheatSheet", "getPositiveEV"}
       /\ (qcall.op = "getArbitrage" => qcall.market = H2H)) => CarriesWarning

\* C9: getArbitrage on any market but h2h raises UNSUPPORTED_MARKET and calls
\* no Feed Client method, with or without a credential.
ArbitrageRejectsOtherMarkets ==
    (qcall.op = "getArbitrage" /\ qcall.market # H2H) =>
        /\ qresult.kind = "error"
        /\ qresult.code = "UNSUPPORTED_MARKET"
        /\ qfeed = <<>>

\* getArbitrage was called on totals with a credential configured.
ArbitrageRejectsWitness ==
    /\ qcall.op = "getArbitrage" /\ qcall.market = Totals
    /\ apiKey
    /\ qresult = ErrUnsupportedMarket
    /\ qfeed = <<>>

\* The h2h quotes of an event: (outcome name, bookmaker, price).
H2HQuotes(ev) ==
    { [outcome |-> trim(o.name), bookmaker |-> bm.key, price |-> o.price[1]] :
        <<bm, o>> \in { x \in UNION { UNION { {bk} \X Range(m.outcomes) :
                                                m \in { k \in Range(bk.markets) : k.key = H2H } } :
                                        bk \in Range(ev.bookmakers) } :
                        x[2].price # <<>> /\ trim(x[2].name) # <<>> } }

QuotedNames(ev) == { q.outcome : q \in H2HQuotes(ev) }

\* The highest price quoted on an outcome name, over all bookmakers.
HighestPrice(ev, name) ==
    CHOOSE p \in { q.price : q \in { r \in H2HQuotes(ev) : r.outcome = name } } :
        \A q \in H2HQuotes(ev) : q.outcome = name => q.price <= p

\* An American price has an implied probability unless it is 0.
HasImplied(price) == price # 0

RECURSIVE RSum(_)
RSum(S) == IF S = {} THEN RZero ELSE LET x == CHOOSE y \in S : TRUE IN RAdd(x[2], RSum(S \ {x}))

\* The sum of the implied probabilities of the best prices of the event.
BestImpliedSum(ev) ==
    RSum({ <<n, americanToImpliedProb(HighestPrice(ev, n))>> : n \in QuotedNames(ev) })

IsArbitrage(ev) ==
    /\ Cardinality(QuotedNames(ev)) = 2
    /\ \A n \in QuotedNames(ev) : HasImplied(HighestPrice(ev, n))
    /\ RLess(BestImpliedSum(ev), ROne)

\* C10: getArbitrage emits an opportunity for an event exactly if its h2h
\* quotes have two distinct outcome names and the implied probabilities of the
\* two best prices sum to less than 1; the edge is (1/sum - 1) * 100 and each
\* leg names a bookmaker that quoted its best price.
ArbitrageEmitsIffUnderOne ==
    (qcall.op = "getArbitrage" /\ qresult.kind = "ok"
       /\ Len(qdata) <= ArbitrageLimit(qcall.top)) =>
        \A i \in 1..Len(qdata) :
            LET ev == qdata[i]
                emitted == { o \in Range(qresult.value.data) : o.eventId = ev.id }
            IN
            IF IsArbitrage(ev)
            THEN /\ Cardinality(emitted) = 1
                 /\ \A o \in emitted :
                      /\ o.edgePercent = EdgePercent(BestImpliedSum(ev))
                      /\ \A k \in 1..Len(o.legs) :
                           [outcome |-> o.legs[k].outcome,
                            bookmaker |-> o.legs[k].bestBookmaker,
                            price |-> HighestPrice(ev, o.legs[k].outcome)] \in H2HQuotes(ev)
            ELSE emitted = {}

\* ------------------------------------------------------------------------
\* Ordering and limiting of the arbitrage list
\* ------------------------------------------------------------------------

ArbitrageAnswered ==
    /\ qcall.op = "getArbitrage"
    /\ qresult.kind = "ok"
    /\ "warning" \notin DOMAIN qresult.value

Detected == FlatMap(LAMBDA ev : Opportunity(ev, qcall.sport, qcall.market), qdata)

NonIncreasingEdge(out) ==
    \A i \in 1..Len(out) - 1 : RLeq(out[i + 1].edgePercent, out[i].edgePercent)

\* out holds the len largest-edge members of all, each once
IsTopOf(out, all, len) ==
    /\ Len(out) = len
    /\ NonIncreasingEdge(out)
    /\ \E f \in [1..Len(out) -> 1..Len(all)] :
         /\ \A i, j \in 1..Len(out) : i # j => f[i] # f[j]
         /\ \A i \in 1..Len(out) : out[i] = all[f[i]]
         /\ \A k \in 1..Len(all) :
              (\A i \in 1..Len(out) : f[i] # k) =>
                  \A i \in 1..Len(out) : RLeq(all[k].edgePercent, out[i].edgePercent)

\* top clamped to [lo, hi]: a number within the interval whatever top is
Clamps(top, lo, hi) ==
    IF top = <<>> THEN { Max2(lo, Min2(hi, DefaultTop)) }
    ELSE IF top = NaN THEN lo..hi
    ELSE { Max2(lo, Min2(hi, top[1])) }

\* C11: the list getArbitrage returns is sorted by non-increasing edge percent
\* and is exactly the first min(n, L) of the n detected opportunities, L being
\* top clamped to [1, 200] (50 when omitted), for every top the caller passes.
ArbitrageSortedAndLimited ==
    ArbitrageAnswered =>
        \E L \in Clamps(qcall.top, 1, ArbitrageTopCap) :
            IsTopOf(qresult.value.data, Detected, Min2(Len(Detected), L))

\* the same for the calls whose top is a number or is omitted
ArbitrageSortedAndLimitedForNumbers ==
    (ArbitrageAnswered /\ qcall.top # NaN) =>
        \E L \in Clamps(qcall.top, 1, ArbitrageTopCap) :
            IsTopOf(qresult.value.data, Detected, Min2(Len(Detected), L))

ArbitrageCutWitness ==
    /\ ArbitrageAnswered
    /\ qcall.top = <<1>>
    /\ Len(Detected) = 2
    /\ Len(qresult.value.data) = 1

\* ------------------------------------------------------------------------
\* The row the cheat sheet retains per key
\* ------------------------------------------------------------------------

CheatSheetAnswered ==
    /\ qcall.op = "getCheatSheet"
    /\ qresult.kind = "ok"
    /\ "warning" \notin DOMAIN qresult.value

\* the quotes of the fetched events in the order the feed lists them
Quotes == Candidates(qdata, qcall.sport, qcall.market)

QuoteKeys == { Quotes[i].key : i \in 1..Len(Quotes) }

QuotesOf(key) == { i \in 1..Len(Quotes) : Quotes[i].key = key }

Priced(key) == { i \in QuotesOf(key) : Quotes[i].row.bestPrice # <<>> }

\* the quote a key retains: the first of its quotes with the highest price, or
\* its first quote when none has a price
Retained(key) ==
    IF Priced(key) = {} THEN MinOf(QuotesOf(key))
    ELSE MinOf({ i \in Priced(key) :
                   \A j \in Priced(key) :
                       Quotes[j].row.bestPrice[1] <= Quotes[i].row.bestPrice[1] })

\* C12: for every (event, player, side, line) key the cheat sheet retains the
\* quote with the maximum American price among the priced quotes of the key
\* (a priced quote beats an unpriced one, of equal prices the first seen
\* stays), with that quote's bookmaker and implied probability, in whatever
\* order the bookmakers are listed.
CheatSheetKeepsBestPrice ==
    (CheatSheetAnswered /\ Cardinality(QuoteKeys) <= CheatSheetLimit(qcall.top)) =>
        /\ Len(qresult.value.data) = Cardinality(QuoteKeys)
        /\ \A key \in QuoteKeys :
             LET q == Quotes[Retained(key)].row IN
             /\ \E i \in 1..Len(qresult.value.data) : qresult.value.data[i] = q
             /\ q.impliedProbability =
                    IF q.bestPrice = <<>> THEN <<>>
                    ELSE CheatSheet_americanToImpliedProb(q.bestPrice[1])

\* the book without a price listed first, then -110, then +105 twice: the row
\* is the first +105 quote
CheatSheetKeepsBestPriceWitness ==
    /\ CheatSheetAnswered
    /\ Len(qdata) = 1
    /\ Len(qdata[1].bookmakers) = 4
    /\ qdata[1].bookmakers[1].key = Str_dk
    /\ qdata[1].bookmakers[2].key = Str_fd
    /\ qdata[1].bookmakers[3].key = Str_cz
    /\ Len(qresult.value.data) = 1
    /\ qresult.value.data[1].bestPrice = <<105>>
    /\ qresult.value.data[1].bestBookmaker = Str_cz

\* ------------------------------------------------------------------------
\* Ordering and limiting of the cheat sheet
\* ------------------------------------------------------------------------

RetainedRows == { Quotes[Retained(key)].row : key \in QuoteKeys }

\* a is not after b: earlier start, or the same start and no higher implied
\* probability
NotAfter(a, b) ==
    \/ CommenceMs(a) < CommenceMs(b)
    \/ /\ CommenceMs(a) = CommenceMs(b)
       /\ RLeq(ImpliedOrOne(a), ImpliedOrOne(b))

\* out holds the len first of the retained rows in the order
IsFirstRows(out, len) ==
    /\ Len(out) = len
    /\ Range(out) \subseteq RetainedRows
    /\ Cardinality(Range(out)) = Len(out)
    /\ \A i, j \in 1..Len(out) : i < j => NotAfter(out[i], out[j])
    /\ \A r \in RetainedRows \ Range(out) : \A i \in 1..Len(out) : NotAfter(out[i], r)

\* the rows of the handler's 200 response
SheetRows == qresponse.body.data.cheatSheet.data

\* C13: the rows the cheat sheet handler answers are ordered by start time
\* ascending, then by implied probability ascending, and are exactly the first
\* min(n, L) of the n retained rows, L being top clamped to [1, 500] (50 when
\* omitted), for every top query value, a non-numeric one included.
CheatSheetSortedAndLimited ==
    (CheatSheetAnswered /\ qresponse.status = 200) =>
        \E L \in Clamps(qcall.top, 1, CheatSheetTopCap) :
            IsFirstRows(SheetRows, Min2(Cardinality(RetainedRows), L))

\* the same for the calls whose top is absent or converts to a number
CheatSheetSortedAndLimitedForNumbers ==
    (CheatSheetAnswered /\ qresponse.status = 200 /\ qcall.top # NaN) =>
        \E L \in Clamps(qcall.top, 1, CheatSheetTopCap) :
            IsFirstRows(SheetRows, Min2(Cardinality(RetainedRows), L))

\* ------------------------------------------------------------------------
\* How an unsupported market is reported
\* ------------------------------------------------------------------------

UnsupportedMarketCodes == {"UNSUPPORTED_MARKET", "INVALID_MARKET"}

ClientErrorStatus(status) == status \in 400..499

\* the call ran into an UnsupportedMarket failure: the service threw one, or
\* the handler asked getOdds for a player_ market
HitUnsupportedMarket ==
    \/ /\ qcall.op \in {"getArbitrage", "getCheatSheet"}
       /\ qresult.kind = "error"
       /\ qresult.code \in UnsupportedMarketCodes
    \/ /\ qcall.op = "getPositiveEV"
       /\ getOddsGate(apiKey, qcall.markets) = "invalid"

\* C14: an UnsupportedMarket failure (UNSUPPORTED_MARKET of arbitrage,
\* INVALID_MARKET of getOdds for a player_ market) reaches the caller with a
\* 4xx status, never as a 5xx fault, on every caller-facing operation.
UnsupportedMarketIsClientError ==
    HitUnsupportedMarket =>
        IF qresponse.kind = "response"
        THEN ClientErrorStatus(qresponse.status)
        ELSE qresult.kind = "error" /\ ClientErrorStatus(qresult.status)

\* ------------------------------------------------------------------------
\* Derived ids and natural keys
\* ------------------------------------------------------------------------

\* C15: makeMarketId is injective on (event id, sportsbook id, market key) and
\* makeSelectionId on (market id, outcome name, line): two natural keys that
\* differ in a component never get the same id, so no Market or
\* MarketSelection row is written from two different natural keys.
DerivedIdsInjective ==
    \A a, b \in idTable : (a.fn = b.fn /\ a.id = b.id) => a.key = b.key

\* ------------------------------------------------------------------------
\* Odds conversions
\* ------------------------------------------------------------------------

\* C16: for every non-zero American price x, decimalToImpliedProb(
\* americanToDecimal(x)) equals americanToImpliedProb(x) as exact rationals,
\* and for x = 0 the three conversions return 0.
ImpliedViaDecimalAgrees ==
    conv.kind = "american" =>
        IF conv.x # 0
        THEN /\ conv.viaDecimal = conv.implied
             /\ RLess(RZero, conv.implied) /\ RLess(conv.implied, ROne)
        ELSE conv.implied = RZero /\ conv.decimal = RZero /\ conv.viaDecimal = RZero

ImpliedViaDecimalWitness ==
    /\ conv.kind = "american"
    /\ conv.x = -110
    /\ conv.decimal = <<21, 11>>
    /\ conv.viaDecimal = <<11, 21>>

\* ------------------------------------------------------------------------
\* The snapshot counter of a batch
\* ------------------------------------------------------------------------

\* C17: within one refreshOdds execution the snapshot index used with the
\* batch timestamp stays below 1000: no batch writes a 1000th-or-later
\* snapshot under the same batchEpochMs, whatever the feed payload.
SnapshotIndexBelowScale ==
    \A i \in 1..Len(batch.written) :
        /\ batch.written[i].index < SnapshotIdScale
        /\ batch.written[i].id[1] = batch.batchEpochMs

\* ------------------------------------------------------------------------
\* The order of a batch's writes
\* ------------------------------------------------------------------------

\* the entity writes of the payload, as (table, row) pairs
EntityWrites(data) ==
    LET items == RefreshItems(data) IN
    { [table |-> w.table, row |-> w.row] :
        w \in { WriteOf(items[i], Str_nba, "", 0, 0, 0) : i \in 1..Len(items) } }

\* no two writes of the payload put different values under one id
IdsAgree(data) ==
    \A a, b \in EntityWrites(data) :
        (a.table = b.table /\ a.table # "OddsSnapshot" /\ a.row.id = b.row.id) => a.row = b.row

\* C18: the final Sport, Team, SportEvent, Sportsbook, Market and
\* MarketSelection tables of a refreshOdds batch do not depend on the order in
\* which the feed's events are processed, for every feed payload.
RefreshOrderIndependent ==
    perm.kind = "ran" =>
        \A t \in EntityTables : perm.listed[t] = perm.reordered[t]

\* the same for the payloads whose writes agree on every id
RefreshOrderIndependentWhenIdsAgree ==
    (perm.kind = "ran" /\ IdsAgree(perm.data)) =>
        \A t \in EntityTables : perm.listed[t] = perm.reordered[t]

\* ------------------------------------------------------------------------
\* Insert-only rows and last-write rows
\* ------------------------------------------------------------------------

InsertOnlyTables == {"Sport", "Team"}
LastWriteTables == {"SportEvent", "Sportsbook", "Market", "MarketSelection"}

\* this step is the completion of invocation p's next write of the loops
IsWriteStep(p) ==
    /\ rpc[p] = "write"
    /\ \/ rpc'[p] = "done"
       \/ rpc'[p] = "write" /\ rpos'[p] = rpos[p] + 1

\* C19: a Sport or Team row, once it exists, is never changed by a later
\* refreshOdds, whatever the feed (a differently spelled team name with the
\* same derived id included); a SportEvent, Sportsbook, Market or
\* MarketSelection row holds exactly the values of the most recent write that
\* referenced its id.
RowsInsertOnlyOrLastWrite ==
    [][ /\ \A t \in InsertOnlyTables : db[t] \subseteq db'[t]
        /\ \A p \in Refreshers :
             IsWriteStep(p) =>
                 LET w == CurrentWrite(p) IN
                 w.table \in LastWriteTables =>
                     /\ w.row \in db'[w.table]
                     /\ \A r \in db'[w.table] : r.id = w.row.id => r = w.row
        /\ \A t \in LastWriteTables : \A r \in db[t] :
             \/ r \in db'[t]
             \/ \E p \in Refreshers :
                  /\ IsWriteStep(p)
                  /\ CurrentWrite(p).table = t
                  /\ CurrentWrite(p).row.id = r.id ]_vars

\* a run on the feed spelling the team "la" and the game "E1 " completed after
\* a run on the feed spelling them "LA" and "e1": the Team row is the first
\* run's, the SportEvent row the second's
RowsInsertOnlyOrLastWriteWitness ==
    \E p, q \in Refreshers :
        /\ p \in rhist[q].after
        /\ rpc[p] = "done" /\ rpc[q] = "done"
        /\ rdata[p] = FeedOne /\ rdata[q] = FeedTwo
        /\ \E r \in db.Team : r.name = <<"L","A">>
        /\ \A r \in db.Team : r.name # <<"l","a">>
        /\ \E r \in db.SportEvent : r.external_ref = <<"E","1"," ">>
        /\ \A r \in db.SportEvent : r.external_ref # <<"e","1">>

\* ------------------------------------------------------------------------
\* Referential integrity
\* ------------------------------------------------------------------------

\* C20: in every reachable store state, those left by a refreshOdds that
\* failed part-way and those after an archive sweep included, every hot or
\* archived snapshot references an existing MarketSelection and Sportsbook,
\* every MarketSelection an existing Market, every Market an existing
\* SportEvent, every SportEvent two existing Teams and an existing Sport, and
\* every Team an existing Sport.
ReferentialIntegrity ==
    /\ \A s \in db.OddsSnapshot \cup db.OddsSnapshotArchive :
         /\ s.selection_id \in Ids(db.MarketSelection)
         /\ s.sportsbook_id \in Ids(db.Sportsbook)
    /\ \A r \in db.MarketSelection : r.market_id \in Ids(db.Market)
    /\ \A r \in db.Market : r.sport_event_id \in Ids(db.SportEvent)
    /\ \A r \in db.SportEvent :
         /\ r.home_team_id \in Ids(db.Team)
         /\ r.away_team_id \in Ids(db.Team)
         /\ r.sport_id \in Ids(db.Sport)
    /\ \A r \in db.Team : r.sport_id \in Ids(db.Sport)

\* a sweep has returned with rows in the archive while a refresh that stopped
\* after a selection and before its snapshot has left a selection without one
ReferentialIntegrityWitness ==
    /\ aresult.kind = "ok"
    /\ db.OddsSnapshotArchive # {}
    /\ \E r \in db.MarketSelection :
         \A s \in db.OddsSnapshot \cup db.OddsSnapshotArchive : s.selection_id # r.id

\* ------------------------------------------------------------------------
\* The legs of an opportunity
\* ------------------------------------------------------------------------

ValidLeg(leg) ==
    /\ RLess(ROne, leg.decimalOdds)
    /\ leg.impliedProbability # <<>>
    /\ RLess(RZero, leg.impliedProbability[1])
    /\ RLess(leg.impliedProbability[1], ROne)

\* C21: every opportunity getArbitrage emits has exactly two legs, each with a
\* best price, decimal odds above 1 and an implied probability strictly
\* between 0 and 1, and its impliedSum is the sum of the two implied
\* probabilities; a quoted price of 0 on one outcome never produces an
\* opportunity.
ArbitrageLegsValid ==
    ArbitrageAnswered =>
        \A i \in 1..Len(qresult.value.data) :
            LET o == qresult.value.data[i] IN
            /\ Len(o.legs) = 2
            /\ ValidLeg(o.legs[1]) /\ ValidLeg(o.legs[2])
            /\ o.impliedSum = RAdd(o.legs[1].impliedProbability[1],
                                   o.legs[2].impliedProbability[1])

\* the same for the feeds that quote no price of 0
ArbitrageLegsValidWithoutZero ==
    (ArbitrageAnswered
       /\ \A i \in 1..Len(qdata) : \A q \in H2HQuotes(qdata[i]) : q.price # 0) =>
        \A i \in 1..Len(qresult.value.data) :
            LET o == qresult.value.data[i] IN
            /\ Len(o.legs) = 2
            /\ ValidLeg(o.legs[1]) /\ ValidLeg(o.legs[2])
            /\ o.impliedSum = RAdd(o.legs[1].impliedProbability[1],
                                   o.legs[2].impliedProbability[1])

====
